---- MODULE Spec2Model ----
(***************************************************************************)
(* Model of the multi-agent demo application: the planner, router,         *)
(* executors and aggregator of agents.py / multi_agent_workflow.py, and    *)
(* the retry wrapper of e2e_llm_client.py.                                 *)
(*                                                                         *)
(* Strings are sequences of symbols.  Text the code inspects (queries,     *)
(* keywords, the "Error" prefix) is kept character by character; literal   *)
(* text the code only emits is kept as one symbol per literal, with each  *)
(* emoji written as a name in parentheses.                                  *)
(***************************************************************************)
EXTENDS Integers, Sequences, FiniteSets, TLC

VARIABLES
    client,                \* e2e_llm_client._global_client is set (TRUE) or None (FALSE)
    pc,                    \* position of the caller / of the graph run
    state,                 \* the state dict threaded through the graph
    supersteps,            \* graph nodes executed in the current invoke
    dispatched,            \* history: the executors route_to_next_agent answered, in order
    conversation_history,  \* MultiAgentSystem.conversation_history
    retry,                 \* the last direct call of call_with_retry: arguments and outcome
    llm_call,              \* what the executor that ran last got from call_e2e_llm
    call                   \* the last direct call of a function: argument and return value

vars == <<client, pc, state, supersteps, dispatched, conversation_history, retry,
          llm_call, call>>

---------------------------------------------------------------------------
(* Bounds of the model *)

\* phrases in a query handed to plan_task directly
MaxPhrases == 3

\* largest max_retries handed to call_with_retry directly
MaxRetries == 3

\* node executions after which the graph engine aborts invoke() with
\* GraphRecursionError (the engine's recursion limit)
RecursionLimit == 25

\* queries one MultiAgentSystem processes in a session
MaxCalls == 2

\* largest absolute value of an operand of an expression handed to
\* advanced_calculator directly
MaxOperand == 2

\* longest list of operands of such an expression
MaxList == 3

---------------------------------------------------------------------------
(* Strings *)

UpperCase == <<"A","B","C","D","E","F","G","H","I","J","K","L","M",
               "N","O","P","Q","R","S","T","U","V","W","X","Y","Z">>
LowerCase == <<"a","b","c","d","e","f","g","h","i","j","k","l","m",
               "n","o","p","q","r","s","t","u","v","w","x","y","z">>

LowerChar(c) ==
    IF \E i \in 1..26 : UpperCase[i] = c
    THEN LowerCase[CHOOSE i \in 1..26 : UpperCase[i] = c]
    ELSE c

\* str.lower()
lower(s) == [i \in 1..Len(s) |-> LowerChar(s[i])]

\* p in s
Contains(s, p) ==
    \E i \in 0..(Len(s) - Len(p)) : SubSeq(s, i + 1, i + Len(p)) = p

\* s.startswith(p)
StartsWith(s, p) ==
    Len(s) >= Len(p) /\ SubSeq(s, 1, Len(p)) = p

\* AnyKeywordIn looking in the query as typed
AnyKeywordIn_case_sensitive(keywords, query) ==
    \E k \in 1..Len(keywords) : Contains(query, keywords[k])

\* any(keyword in query.lower() for keyword in keywords)
AnyKeywordIn(keywords, query) ==
    \E k \in 1..Len(keywords) : Contains(lower(query), keywords[k])

RECURSIVE Join(_, _)
\* sep.join(parts)
Join(sep, parts) ==
    IF parts = <<>> THEN <<>>
    ELSE IF Len(parts) = 1 THEN parts[1]
    ELSE parts[1] \o sep \o Join(sep, Tail(parts))

EmptyDict == [k \in {} |-> <<>>]

\* d[k] = v
Put(d, k, v) == [x \in (DOMAIN d) \cup {k} |-> IF x = k THEN v ELSE d[x]]

---------------------------------------------------------------------------
(* Keyword lists of CoordinatorAgent.plan_task *)

research_keywords ==
    <<
      <<"w","h","a","t"," ","i","s">>,
      <<"t","e","l","l"," ","m","e"," ","a","b","o","u","t">>,
      <<"r","e","s","e","a","r","c","h">>,
      <<"f","i","n","d"," ","i","n","f","o","r","m","a","t","i","o","n">>,
      <<"e","x","p","l","a","i","n">>
    >>

analysis_keywords ==
    <<
      <<"c","a","l","c","u","l","a","t","e">>,
      <<"a","n","a","l","y","z","e">>,
      <<"c","o","m","p","a","r","e">>,
      <<"s","t","a","t","i","s","t","i","c","s">>,
      <<"a","v","e","r","a","g","e">>,
      <<"s","u","m">>,
      <<"+">>,
      <<"-">>,
      <<"*">>,
      <<"/">>
    >>

writing_keywords ==
    <<
      <<"w","r","i","t","e">>,
      <<"c","r","e","a","t","e">>,
      <<"g","e","n","e","r","a","t","e">>,
      <<"s","u","m","m","a","r","i","z","e">>,
      <<"r","e","p","o","r","t">>,
      <<"d","o","c","u","m","e","n","t">>
    >>

---------------------------------------------------------------------------
(* Queries *)

Q_MachineLearning ==
    <<"W","h","a","t"," ","i","s"," ","m","a","c","h","i","n","e"," ","l","e","a","r","n","i",
      "n","g"," ","a","n","d"," ","c","a","l","c","u","l","a","t","e"," ","1","0"," ","+"," ",
      "5","?">>

Q_ClimateSummary ==
    <<"R","e","s","e","a","r","c","h"," ","c","l","i","m","a","t","e"," ","c","h","a","n","g",
      "e"," ","a","n","d"," ","w","r","i","t","e"," ","a"," ","s","u","m","m","a","r","y">>

Q_AverageReport ==
    <<"C","a","l","c","u","l","a","t","e"," ","t","h","e"," ","a","v","e","r","a","g","e"," ",
      "o","f"," ","1",",","2",",","3",",","4",",","5"," ","a","n","d"," ","c","r","e","a","t",
      "e"," ","a"," ","r","e","p","o","r","t">>

Q_Hello ==
    <<"H","e","l","l","o"," ","t","h","e","r","e">>

Q_Empty ==
    << >>

Q_Explain ==
    <<"E","x","p","l","a","i","n"," ","q","u","a","n","t","u","m"," ","c","o","m","p","u","t",
      "i","n","g">>

Q_Product ==
    <<"1","5"," ","*"," ","2","5">>

Q_Write ==
    <<"W","r","i","t","e"," ","a"," ","p","o","e","m">>

Q_Reversed ==
    <<"G","e","n","e","r","a","t","e"," ","a"," ","d","o","c","u","m","e","n","t",","," ","c",
      "o","m","p","a","r","e"," ","8"," ","/"," ","2",","," ","t","h","e","n"," ","t","e","l",
      "l"," ","m","e"," ","a","b","o","u","t"," ","b","l","o","c","k","c","h","a","i","n">>

Q_Chart ==
    <<"A","n","a","l","y","z","e"," ","s","a","l","e","s"," ","a","n","d"," ","p","l","o","t",
      " ","a"," ","c","h","a","r","t">>

Queries ==
    { Q_MachineLearning, Q_ClimateSummary, Q_AverageReport, Q_Hello, Q_Empty,
      Q_Explain, Q_Product, Q_Write, Q_Reversed, Q_Chart }

\* words to build further queries from: a research keyword, an analysis
\* keyword, a writing keyword, a word that holds a keyword of two lists,
\* and two words that hold none
Phrases ==
    <<
      <<"E","x","p","l","a","i","n">>,
      <<"c","o","m","p","a","r","e">>,
      <<"W","r","i","t","e">>,
      <<"s","u","m","m","a","r","i","z","e">>,
      <<"h","e","l","l","o">>,
      <<"b","l","o","c","k","c","h","a","i","n">>
    >>

PhraseSeqs == UNION { [1..n -> 1..Len(Phrases)] : n \in 0..MaxPhrases }

\* the phrases of up to MaxPhrases words over Phrases, in every order
PhraseQueries ==
    { Join(<<" ">>, [i \in 1..Len(ps) |-> Phrases[ps[i]]]) : ps \in PhraseSeqs }

---------------------------------------------------------------------------
(* CoordinatorAgent *)

ResearchStep == [agent |-> "research", task |-> "gather_information"]
AnalysisStep == [agent |-> "analysis", task |-> "process_data"]
WritingStep  == [agent |-> "writing",  task |-> "create_content"]

\* build_plan without the default plan
build_plan_no_default(query) ==
    LET p1 == IF AnyKeywordIn(research_keywords, query) THEN <<ResearchStep>> ELSE <<>>
        p2 == IF AnyKeywordIn(analysis_keywords, query) THEN Append(p1, AnalysisStep) ELSE p1
    IN  IF AnyKeywordIn(writing_keywords, query) THEN Append(p2, WritingStep) ELSE p2

\* build_plan testing the writing keywords first
build_plan_writing_first(query) ==
    LET p1 == IF AnyKeywordIn(writing_keywords, query) THEN <<WritingStep>> ELSE <<>>
        p2 == IF AnyKeywordIn(research_keywords, query) THEN Append(p1, ResearchStep) ELSE p1
        p3 == IF AnyKeywordIn(analysis_keywords, query) THEN Append(p2, AnalysisStep) ELSE p2
    IN  IF p3 = <<>> THEN <<ResearchStep, WritingStep>> ELSE p3

\* the plan list plan_task builds for a query
build_plan(query) ==
    LET p1 == IF AnyKeywordIn(research_keywords, query) THEN <<ResearchStep>> ELSE <<>>
        p2 == IF AnyKeywordIn(analysis_keywords, query) THEN Append(p1, AnalysisStep) ELSE p1
        p3 == IF AnyKeywordIn(writing_keywords, query) THEN Append(p2, WritingStep) ELSE p2
    IN  IF p3 = <<>> THEN <<ResearchStep, WritingStep>> ELSE p3

\* plan_task that keeps the cursor where the router left it
plan_task_keeps_cursor(state_dict) ==
    LET plan == build_plan(state_dict.user_query)
    IN  [state_dict EXCEPT
            !.task_plan = plan,
            !.metadata = [@ EXCEPT !.total_steps = Len(plan)]]

plan_task(state_dict) ==
    LET plan == build_plan(state_dict.user_query)
    IN  [state_dict EXCEPT
            !.task_plan = plan,
            !.current_step = 0,
            !.metadata = [@ EXCEPT !.total_steps = Len(plan)]]

ResearchLabel == "(books) **Research Findings:**\n"
AnalysisLabel == "(bar chart) **Analysis Results:**\n"
WritingLabel  == "(writing hand) **Generated Content:**\n"

\* aggregate_results putting the writing section first
aggregate_results_writing_first(state_dict) ==
    LET results == state_dict.agent_results
        f1 == IF "writing" \in DOMAIN results
              THEN <<(<<WritingLabel>> \o results["writing"])>> ELSE <<>>
        f2 == IF "research" \in DOMAIN results
              THEN Append(f1, <<ResearchLabel>> \o results["research"]) ELSE f1
        final_parts == IF "analysis" \in DOMAIN results
              THEN Append(f2, <<AnalysisLabel>> \o results["analysis"]) ELSE f2
    IN  [state_dict EXCEPT
            !.final_result = Join(<<"\n\n">>, final_parts),
            !.metadata = [@ EXCEPT !.end_time = TRUE]]

aggregate_results(state_dict) ==
    LET results == state_dict.agent_results
        f1 == IF "research" \in DOMAIN results
              THEN <<(<<ResearchLabel>> \o results["research"])>> ELSE <<>>
        f2 == IF "analysis" \in DOMAIN results
              THEN Append(f1, <<AnalysisLabel>> \o results["analysis"]) ELSE f1
        final_parts == IF "writing" \in DOMAIN results
              THEN Append(f2, <<WritingLabel>> \o results["writing"]) ELSE f2
    IN  [state_dict EXCEPT
            !.final_result = Join(<<"\n\n">>, final_parts),
            !.metadata = [@ EXCEPT !.end_time = TRUE]]

---------------------------------------------------------------------------
(* e2e_llm_client.py *)

\* "Error", the prefix call_with_retry and the tools test for
ErrorPrefix ==
    <<"E","r","r","o","r">>

\* the warning sign that starts the "not configured" message
WarningSign == "(warning sign)"

DefaultMaxRetries == 3

\* What one call of call_llm gives back to call_with_retry: a string
\* (kind "text") or a value that is no string (kind "none": a null
\* "content"/"response"/"text"/"output" field of the response body), on
\* which result.startswith raises inside the try block.
LLMCompletion      == <<"(completion text)">>
LLMErrorCompletion == ErrorPrefix \o <<" handling is (completion text)">>
LLMConnectError    == ErrorPrefix \o <<": Unable to connect to any E2E endpoint">>
LLMStatusError     == ErrorPrefix \o <<" calling E2E LLM API: 500">>
LLMFormatError     == ErrorPrefix \o <<": Unexpected response format from E2E API. Keys: ", "['error']">>
LLMJSONError       == ErrorPrefix \o <<": Invalid JSON response: ", "(response text)">>
LLMNetworkError    == ErrorPrefix \o <<": Unable to connect to E2E Networks API">>
LLMUnexpectedError == ErrorPrefix \o <<": Unexpected issue with E2E API call">>

\* every error message call_llm returns
CallLLMErrors ==
    { LLMConnectError, LLMStatusError, LLMFormatError, LLMJSONError,
      LLMNetworkError, LLMUnexpectedError }

TextOutcome(s) == [kind |-> "text", value |-> s]
NoneOutcome    == [kind |-> "none", value |-> <<>>]

LLMOutcomes ==
    { TextOutcome(LLMCompletion), TextOutcome(LLMErrorCompletion), NoneOutcome }
    \cup { TextOutcome(message) : message \in CallLLMErrors }

MaxRetriesExceeded == ErrorPrefix \o <<": Max retries exceeded">>

ErrorAfterAttempts(max_retries) ==
    ErrorPrefix \o <<" after ", ToString(max_retries), " attempts: ",
                     "'NoneType' object has no attribute 'startswith'">>

\* sleep_after with a constant backoff
sleep_after_constant(sleeps, attempt, max_retries) ==
    IF attempt < max_retries - 1 THEN Append(sleeps, 1) ELSE sleeps

\* time.sleep(1 * (attempt + 1)) when attempt < max_retries - 1
sleep_after(sleeps, attempt, max_retries) ==
    IF attempt < max_retries - 1 THEN Append(sleeps, 1 * (attempt + 1)) ELSE sleeps

RECURSIVE retry_loop(_, _, _, _, _)
\* the for loop of call_with_retry from iteration `attempt` on; outcomes[k] is
\* what the k-th call of call_llm gives.  The record holds the value
\* returned, whether an exception left the function instead, the number of
\* call_llm calls made and the sleeps slept.
retry_loop(outcomes, max_retries, attempt, ncalls, sleeps) ==
    IF attempt >= max_retries
    THEN [result |-> MaxRetriesExceeded, raised |-> FALSE,
          ncalls |-> ncalls, sleeps |-> sleeps]
    ELSE LET o == outcomes[attempt + 1] IN
         IF o.kind = "text"
         THEN IF ~StartsWith(o.value, ErrorPrefix)
              THEN [result |-> o.value, raised |-> FALSE,
                    ncalls |-> ncalls + 1, sleeps |-> sleeps]
              ELSE retry_loop(outcomes, max_retries, attempt + 1, ncalls + 1,
                              sleep_after(sleeps, attempt, max_retries))
         ELSE IF attempt < max_retries - 1
              THEN retry_loop(outcomes, max_retries, attempt + 1, ncalls + 1,
                              Append(sleeps, 1 * (attempt + 1)))
              ELSE [result |-> ErrorAfterAttempts(max_retries), raised |-> FALSE,
                    ncalls |-> ncalls + 1, sleeps |-> sleeps]

\* call_with_retry that never tries again
call_with_retry_once(outcomes, max_retries) ==
    retry_loop(outcomes, IF max_retries > 0 THEN 1 ELSE 0, 0, 0, <<>>)

call_with_retry(outcomes, max_retries) ==
    retry_loop(outcomes, max_retries, 0, 0, <<>>)

\* no direct call of call_with_retry made yet
NoRetry == [max_retries |-> 0, outcomes |-> <<>>, returned |-> call_with_retry(<<>>, 0)]

NotConfigured ==
    <<WarningSign, " E2E Networks API not configured. Please set your API key.">>

\* call_e2e_llm with the global client `configured` or None
call_e2e_llm(configured, outcomes) ==
    IF ~configured THEN NotConfigured
    ELSE call_with_retry(outcomes, DefaultMaxRetries).result

\* the call_llm calls one call of call_e2e_llm makes
e2e_llm_calls(configured, outcomes) ==
    IF ~configured THEN 0
    ELSE call_with_retry(outcomes, DefaultMaxRetries).ncalls

\* the tools' test looking for the warning sign only
IsLLMFailure_warning_only(llm_result) ==
    StartsWith(llm_result, <<WarningSign>>)

\* the test both tools apply to the value of call_e2e_llm
IsLLMFailure(llm_result) ==
    StartsWith(llm_result, <<WarningSign>>) \/ StartsWith(llm_result, ErrorPrefix)

\* a tool that did not call call_e2e_llm
NoLLMCall == [ncalls |-> 0, result |-> <<>>]

\* `client = get_e2e_client()` / `if client: llm_result = call_e2e_llm(...)`
\* of web_search and content_generator: the call_llm calls made and the
\* value got
tool_llm_call(configured, outcomes) ==
    IF configured
    THEN [ncalls |-> e2e_llm_calls(configured, outcomes),
          result |-> call_e2e_llm(configured, outcomes)]
    ELSE NoLLMCall

---------------------------------------------------------------------------
(* Tools of agents.py *)

\* keys of the static knowledge base of web_search, in insertion order
search_topics ==
    <<
      <<"p","y","t","h","o","n"," ","p","r","o","g","r","a","m","m","i","n","g">>,
      <<"m","a","c","h","i","n","e"," ","l","e","a","r","n","i","n","g">>,
      <<"c","l","i","m","a","t","e"," ","c","h","a","n","g","e">>,
      <<"a","r","t","i","f","i","c","i","a","l"," ","i","n","t","e","l","l","i","g","e","n","c",
        "e">>,
      <<"d","a","t","a"," ","s","c","i","e","n","c","e">>,
      <<"b","l","o","c","k","c","h","a","i","n">>,
      <<"q","u","a","n","t","u","m"," ","c","o","m","p","u","t","i","n","g">>
    >>

search_results ==
    << "Python is a high-level programming language known for its simplicity and versatility. Latest version is 3.12.",
       "Machine learning is a subset of AI that enables computers to learn without explicit programming. Popular frameworks include TensorFlow and PyTorch.",
       "Climate change refers to long-term shifts in global temperatures and weather patterns. Human activities are the main driver since the 1800s.",
       "AI is intelligence demonstrated by machines, as opposed to human intelligence. It includes machine learning, natural language processing, and robotics.",
       "Data science combines statistics, programming, and domain expertise to extract insights from data.",
       "Blockchain is a distributed ledger technology that maintains a secure and decentralized record of transactions.",
       "Quantum computing uses quantum mechanical phenomena to process information in ways classical computers cannot." >>

\* the static knowledge base lookup at the end of web_search
fallback_research(query) ==
    LET hits == { i \in 1..Len(search_topics) :
                    Contains(lower(query), lower(search_topics[i])) }
    IN  IF hits # {}
        THEN <<"(magnifier) **Fallback Research:** ",
               search_results[CHOOSE i \in hits : \A j \in hits : i <= j]>>
        ELSE <<"(magnifier) **Fallback Research:** ", "Found general information about '">>
             \o query
             \o <<"'. This topic is actively researched with many recent developments.">>

\* web_search that labels whatever a configured backend gave
web_search_labels_errors(configured, llm_result, query) ==
        IF configured
        THEN <<"(magnifier) **E2E Research Results:** ">> \o llm_result
        ELSE fallback_research(query)

\* web_search, llm_result being the value call_e2e_llm returns when it is called
web_search(configured, llm_result, query) ==
        IF configured /\ ~IsLLMFailure(llm_result)
        THEN <<"(magnifier) **E2E Research Results:** ">> \o llm_result
        ELSE fallback_research(query)

fallback_style(topic, style) ==
    CASE style = "summary" ->
            <<"(clipboard) Quick summary: ">> \o topic
            \o <<" is an important concept with significant practical applications.">>
      [] style = "technical" ->
            <<"(wrench) Technical documentation for ">> \o topic
            \o <<" including implementation details and specifications.">>
      [] style = "creative" ->
            <<"(sparkles) Creative exploration of ">> \o topic
            \o <<" from unique perspectives and innovative angles.">>
      [] OTHER ->
            <<"(memo) Comprehensive guide on ">> \o topic
            \o <<" covering key concepts, applications, and best practices.">>

\* content_generator, llm_result being the value call_e2e_llm returns when it
\* is called
content_generator(configured, llm_result, topic, style) ==
        IF configured /\ ~IsLLMFailure(llm_result)
        THEN <<"(memo) **E2E Generated Content:** ">> \o llm_result
        ELSE <<"(memo) **Fallback Content:** ">> \o fallback_style(topic, style)

---------------------------------------------------------------------------
(* ResearchAgent, WritingAgent *)

\* gather_information that also writes its result to final_result
gather_information_writes_final(configured, llm_result, state_dict) ==
    LET search_result == web_search(configured, llm_result, state_dict.user_query)
    IN  [state_dict EXCEPT !.agent_results = Put(@, "research", search_result),
                           !.final_result = search_result]

gather_information(configured, llm_result, state_dict) ==
    LET search_result == web_search(configured, llm_result, state_dict.user_query)
    IN  [state_dict EXCEPT !.agent_results = Put(@, "research", search_result)]

kw_summary ==
    <<"s","u","m","m","a","r","y">>
kw_technical ==
    <<"t","e","c","h","n","i","c","a","l">>
kw_creative ==
    <<"c","r","e","a","t","i","v","e">>

content_style(query) ==
    IF Contains(lower(query), kw_summary) THEN "summary"
    ELSE IF Contains(lower(query), kw_technical) THEN "technical"
    ELSE IF Contains(lower(query), kw_creative) THEN "creative"
    ELSE "informative"

create_content(configured, llm_result, state_dict) ==
    LET query   == state_dict.user_query
        content == content_generator(configured, llm_result, query, content_style(query))
        enhanced ==
            IF "research" \in DOMAIN state_dict.agent_results
            THEN content \o <<"\n\nBased on research findings: ">>
                         \o state_dict.agent_results["research"]
            ELSE content
    IN  [state_dict EXCEPT !.agent_results = Put(@, "writing", enhanced)]

---------------------------------------------------------------------------
(* Numbers: Python int and float values met by the calculator.  A value is  *)
(* the exact rational n/d (d > 0, lowest terms) with isfloat telling a      *)
(* float from an int.                                                       *)

Abs(x) == IF x < 0 THEN -x ELSE x

RECURSIVE GCD(_, _)
GCD(a, b) == IF b = 0 THEN a ELSE GCD(b, a % b)

Num(n, d, isfloat) ==
    LET g == GCD(Abs(n), d) IN [n |-> n \div g, d |-> d \div g, isfloat |-> isfloat]

IntNum(k) == [n |-> k, d |-> 1, isfloat |-> FALSE]

NumAdd(x, y) == Num(x.n * y.d + y.n * x.d, x.d * y.d, x.isfloat \/ y.isfloat)
NumSub(x, y) == Num(x.n * y.d - y.n * x.d, x.d * y.d, x.isfloat \/ y.isfloat)
NumMul(x, y) == Num(x.n * y.n, x.d * y.d, x.isfloat \/ y.isfloat)
NumNeg(x)    == [x EXCEPT !.n = -x.n]
\* x / y for y # 0: true division always gives a float
NumDiv(x, y) ==
    IF y.n > 0 THEN Num(x.n * y.d, x.d * y.n, TRUE)
    ELSE Num(-(x.n * y.d), x.d * (-y.n), TRUE)

DigitChars == <<"0","1","2","3","4","5","6","7","8","9">>
IsDigit(c) == \E k \in 1..10 : DigitChars[k] = c
DigitVal(c) == (CHOOSE k \in 1..10 : DigitChars[k] = c) - 1

RECURSIVE NatToChars(_)
NatToChars(k) ==
    IF k < 10 THEN <<DigitChars[k + 1]>>
    ELSE Append(NatToChars(k \div 10), DigitChars[(k % 10) + 1])

IntToChars(k) == IF k < 0 THEN <<"-">> \o NatToChars(-k) ELSE NatToChars(k)

\* str(x): exact for ints and for floats with an integral value; the repr of
\* any other float is kept as one symbol naming the fraction
NumToChars(x) ==
    IF ~x.isfloat THEN IntToChars(x.n)
    ELSE IF x.d = 1 THEN IntToChars(x.n) \o <<".", "0">>
    ELSE <<"(float " \o ToString(x.n) \o "/" \o ToString(x.d) \o ")">>

---------------------------------------------------------------------------
(* eval() on the characters advanced_calculator leaves in the expression *)

OpChars == {"+", "-", "*", "/"}

\* [0-9+\-*/.() ] of re.sub in advanced_calculator
IsCalcChar(c) == IsDigit(c) \/ c \in OpChars \/ c \in {".", "(", ")", " "}

\* [0-9+\-*/().\s] of the regex in process_data and _do_math
IsMathChar(c) == IsDigit(c) \/ c \in OpChars \/ c \in {".", "(", ")", " ", "\t", "\n"}

\* the maximal run of digits of s that starts at position i
RECURSIVE DigitRunEnd(_, _)
DigitRunEnd(s, i) ==
    IF i + 1 <= Len(s) /\ IsDigit(s[i + 1]) THEN DigitRunEnd(s, i + 1) ELSE i

RECURSIVE DigitsValue(_, _, _, _)
DigitsValue(s, i, j, acc) ==
    IF i > j THEN acc ELSE DigitsValue(s, i + 1, j, acc * 10 + DigitVal(s[i]))

\* a decimal literal with a leading zero is a syntax error unless it is all zeros
BadLeadingZero(s, i, j) ==
    j > i /\ s[i] = "0" /\ \E k \in i..j : s[k] # "0"

RECURSIVE Tokens(_, _)
\* the tokens of s from position i on; a "bad" token is text eval rejects, an
\* "unsupported" token is text outside the fragment modelled here (decimal
\* points, parentheses, the two-character operators ** and //)
Tokens(s, i) ==
    IF i > Len(s) THEN <<>>
    ELSE IF s[i] = " " THEN Tokens(s, i + 1)
    ELSE IF IsDigit(s[i]) THEN
        LET j == DigitRunEnd(s, i) IN
        IF j + 1 <= Len(s) /\ s[j + 1] = "."
        THEN <<[t |-> "unsupported", v |-> 0]>>
        ELSE IF BadLeadingZero(s, i, j)
        THEN <<[t |-> "bad", v |-> 0]>> \o Tokens(s, j + 1)
        ELSE <<[t |-> "int", v |-> DigitsValue(s, i, j, 0)]>> \o Tokens(s, j + 1)
    ELSE IF s[i] \in {"*", "/"} /\ i + 1 <= Len(s) /\ s[i + 1] = s[i]
        THEN <<[t |-> "unsupported", v |-> 0]>>
    ELSE IF s[i] \in OpChars THEN <<[t |-> s[i], v |-> 0]>> \o Tokens(s, i + 1)
    ELSE <<[t |-> "unsupported", v |-> 0]>>

ParseFail == [ok |-> FALSE, val |-> IntNum(0), next |-> 0]
ParseOk(val, next) == [ok |-> TRUE, val |-> val, next |-> next]

RECURSIVE parse_factor(_, _)
\* factor: ('+' | '-') factor | INT
parse_factor(toks, i) ==
    IF i > Len(toks) THEN ParseFail
    ELSE IF toks[i].t = "int" THEN ParseOk(IntNum(toks[i].v), i + 1)
    ELSE IF toks[i].t \in {"+", "-"} THEN
        LET r == parse_factor(toks, i + 1) IN
        IF ~r.ok THEN ParseFail
        ELSE ParseOk(IF toks[i].t = "-" THEN NumNeg(r.val) ELSE r.val, r.next)
    ELSE ParseFail

RECURSIVE parse_term_rest(_, _, _)
\* term: factor (('*' | '/') factor)*, a division by zero raising
parse_term_rest(toks, acc, i) ==
    IF i <= Len(toks) /\ toks[i].t \in {"*", "/"} THEN
        LET r == parse_factor(toks, i + 1) IN
        IF ~r.ok THEN ParseFail
        ELSE IF toks[i].t = "*" THEN parse_term_rest(toks, NumMul(acc, r.val), r.next)
        ELSE IF r.val.n = 0 THEN ParseFail
        ELSE parse_term_rest(toks, NumDiv(acc, r.val), r.next)
    ELSE ParseOk(acc, i)

parse_term(toks, i) ==
    LET r == parse_factor(toks, i) IN
    IF ~r.ok THEN ParseFail ELSE parse_term_rest(toks, r.val, r.next)

RECURSIVE parse_expr_rest(_, _, _)
\* arith_expr: term (('+' | '-') term)*
parse_expr_rest(toks, acc, i) ==
    IF i <= Len(toks) /\ toks[i].t \in {"+", "-"} THEN
        LET r == parse_term(toks, i + 1) IN
        IF ~r.ok THEN ParseFail
        ELSE parse_expr_rest(toks,
                 IF toks[i].t = "+" THEN NumAdd(acc, r.val) ELSE NumSub(acc, r.val),
                 r.next)
    ELSE ParseOk(acc, i)

\* eval(expression): a value, "error" when eval raises, or "unsupported"
eval(expression) ==
    LET toks == Tokens(expression, 1) IN
    IF \E k \in 1..Len(toks) : toks[k].t = "unsupported"
    THEN [kind |-> "unsupported", val |-> IntNum(0)]
    ELSE IF \E k \in 1..Len(toks) : toks[k].t = "bad"
    THEN [kind |-> "error", val |-> IntNum(0)]
    ELSE LET t == parse_term(toks, 1)
             r == IF t.ok THEN parse_expr_rest(toks, t.val, t.next) ELSE ParseFail
         IN  IF r.ok /\ r.next = Len(toks) + 1
             THEN [kind |-> "value", val |-> r.val]
             ELSE [kind |-> "error", val |-> IntNum(0)]

---------------------------------------------------------------------------
(* advanced_calculator, data_visualizer *)

RECURSIVE FracValue(_, _, _, _)
\* the value of the digits s[i..j] read as the fraction digits of a literal
FracValue(s, i, j, scale) ==
    IF i > j THEN IntNum(0)
    ELSE NumAdd(Num(DigitVal(s[i]), scale * 10, TRUE), FracValue(s, i + 1, j, scale * 10))

RECURSIVE find_numbers(_, _)
\* [float(x) for x in re.findall(r'-?\d+\.?\d*', s)], scanning from position i
find_numbers(s, i) ==
    IF i > Len(s) THEN <<>>
    ELSE LET neg   == s[i] = "-" /\ i + 1 <= Len(s) /\ IsDigit(s[i + 1])
             first == IF neg THEN i + 1 ELSE i
         IN  IF ~neg /\ ~IsDigit(s[i]) THEN find_numbers(s, i + 1)
             ELSE LET j      == DigitRunEnd(s, first)
                      dot    == j + 1 <= Len(s) /\ s[j + 1] = "."
                      k      == IF dot /\ j + 2 <= Len(s) /\ IsDigit(s[j + 2])
                                THEN DigitRunEnd(s, j + 2)
                                ELSE IF dot THEN j + 1 ELSE j
                      whole  == Num(DigitsValue(s, first, j, 0), 1, TRUE)
                      value  == IF dot THEN NumAdd(whole, FracValue(s, j + 2, k, 1))
                                ELSE whole
                  IN  <<IF neg THEN NumNeg(value) ELSE value>> \o find_numbers(s, k + 1)

RECURSIVE NumSum(_)
NumSum(numbers) ==
    IF numbers = <<>> THEN Num(0, 1, TRUE)
    ELSE NumAdd(numbers[1], NumSum(Tail(numbers)))

RECURSIVE IsPowerOfTwo(_)
IsPowerOfTwo(d) == d = 1 \/ (d % 2 = 0 /\ IsPowerOfTwo(d \div 2))

\* f"{x:.2f}" cutting the decimals off instead of rounding
Format2f_truncates(x) ==
    LET a    == Abs(x.n) * 100
        r    == a \div x.d
        sign == IF x.n < 0 THEN <<"-">> ELSE <<>>
    IN  sign \o NatToChars(r \div 100)
             \o <<".", DigitChars[((r % 100) \div 10) + 1], DigitChars[(r % 10) + 1]>>

\* f"{x:.2f}": exact except on a tie that binary floating point cannot hold,
\* whose rounding is kept as one symbol
Format2f(x) ==
    LET a    == Abs(x.n) * 100
        q    == a \div x.d
        rem  == a % x.d
        tie  == 2 * rem = x.d
        up   == 2 * rem > x.d \/ (tie /\ q % 2 = 1)
        r    == IF up THEN q + 1 ELSE q
        sign == IF x.n < 0 THEN <<"-">> ELSE <<>>
    IN  IF tie /\ ~IsPowerOfTwo(x.d)
        THEN <<"(2 decimals of " \o ToString(x.n) \o "/" \o ToString(x.d) \o ")">>
        ELSE sign \o NatToChars(r \div 100)
                  \o <<".", DigitChars[((r % 100) \div 10) + 1], DigitChars[(r % 10) + 1]>>

\* str(numbers) for a list of floats
ListToChars(numbers) ==
    <<"[">> \o Join(<<",", " ">>, [i \in 1..Len(numbers) |-> NumToChars(numbers[i])])
            \o <<"]">>

kw_average ==
    <<"a","v","e","r","a","g","e">>
kw_mean ==
    <<"m","e","a","n">>
kw_sum ==
    <<"s","u","m">>

CalculationError == <<"(cross mark) Error in calculation">>

\* re.sub(r'[^0-9+\-*/.() ]', '', expression)
RECURSIVE strip_non_calc(_)
strip_non_calc(s) ==
    IF s = <<>> THEN <<>>
    ELSE IF IsCalcChar(Head(s)) THEN <<Head(s)>> \o strip_non_calc(Tail(s))
    ELSE strip_non_calc(Tail(s))

\* advanced_calculator without the except clause
advanced_calculator_raises(expression) ==
    LET numbers  == find_numbers(expression, 1)
        stripped == strip_non_calc(expression)
        evaluated == eval(stripped)
    IN  IF (Contains(lower(expression), kw_average) \/ Contains(lower(expression), kw_mean))
           /\ numbers # <<>>
        THEN <<"(bar chart) Average of ">> \o ListToChars(numbers) \o <<" = ">>
             \o Format2f(NumDiv(NumSum(numbers), IntNum(Len(numbers))))
        ELSE IF Contains(lower(expression), kw_sum) /\ numbers # <<>>
        THEN <<"(bar chart) Sum of ">> \o ListToChars(numbers) \o <<" = ">>
             \o NumToChars(NumSum(numbers))
        ELSE IF evaluated.kind = "value"
        THEN <<"(abacus) ">> \o stripped \o <<" = ">> \o NumToChars(evaluated.val)
        ELSE <<"(an exception raised by eval)">>

advanced_calculator(expression) ==
    LET numbers  == find_numbers(expression, 1)
        stripped == strip_non_calc(expression)
        evaluated == eval(stripped)
    IN  IF (Contains(lower(expression), kw_average) \/ Contains(lower(expression), kw_mean))
           /\ numbers # <<>>
        THEN <<"(bar chart) Average of ">> \o ListToChars(numbers) \o <<" = ">>
             \o Format2f(NumDiv(NumSum(numbers), IntNum(Len(numbers))))
        ELSE IF Contains(lower(expression), kw_sum) /\ numbers # <<>>
        THEN <<"(bar chart) Sum of ">> \o ListToChars(numbers) \o <<" = ">>
             \o NumToChars(NumSum(numbers))
        ELSE IF evaluated.kind = "value"
        THEN <<"(abacus) ">> \o stripped \o <<" = ">> \o NumToChars(evaluated.val)
        ELSE IF evaluated.kind = "error"
        THEN CalculationError
        ELSE <<"(an expression outside the modelled fragment)">>

chart_types == {"bar chart", "line graph", "pie chart", "scatter plot"}

\* data_visualizer with selected_chart the value random.choice gave
data_visualizer(selected_chart, data_description) ==
    <<"(chart) Created ", selected_chart, " for: ">> \o data_description
    \o <<". Visualization shows clear trends and patterns.">>

---------------------------------------------------------------------------
(* AnalysisAgent *)

viz_keywords ==
    <<
      <<"c","h","a","r","t">>,
      <<"g","r","a","p","h">>,
      <<"v","i","s","u","a","l","i","z","e">>,
      <<"p","l","o","t">>
    >>

RECURSIVE MathRunEnd(_, _)
MathRunEnd(s, i) ==
    IF i + 1 <= Len(s) /\ IsMathChar(s[i + 1]) THEN MathRunEnd(s, i + 1) ELSE i

RECURSIVE math_patterns(_, _)
\* re.findall(r'[0-9+\-*/().\s]+', s), scanning from position i
math_patterns(s, i) ==
    IF i > Len(s) THEN <<>>
    ELSE IF ~IsMathChar(s[i]) THEN math_patterns(s, i + 1)
    ELSE LET j == MathRunEnd(s, i) IN <<SubSeq(s, i, j)>> \o math_patterns(s, j + 1)

HasOperator(pattern) == \E k \in 1..Len(pattern) : pattern[k] \in OpChars

RECURSIVE calc_results(_)
\* the calculator's answer for every pattern that holds an operator
calc_results(patterns) ==
    IF patterns = <<>> THEN <<>>
    ELSE IF HasOperator(Head(patterns))
    THEN <<advanced_calculator(Head(patterns))>> \o calc_results(Tail(patterns))
    ELSE calc_results(Tail(patterns))

AnalysisCompleted == <<"(bar chart) Analysis completed: Data patterns and insights identified.">>

\* the visualizer's answer when the query holds a visualization keyword
viz_results(selected_chart, query) ==
    IF AnyKeywordIn(viz_keywords, query)
    THEN <<data_visualizer(selected_chart, query)>>
    ELSE <<>>

\* `if not results: results.append(...)`
or_default(results) == IF results = <<>> THEN <<AnalysisCompleted>> ELSE results

\* process_data that draws a chart for every query
process_data_always_charts(selected_chart, state_dict) ==
    LET query   == state_dict.user_query
        calcs   == calc_results(math_patterns(query, 1))
        results == Append(calcs, data_visualizer(selected_chart, query))
    IN  [state_dict EXCEPT
            !.agent_results = Put(@, "analysis", Join(<<" | ">>, results))]

\* process_data that starts a new result mapping
process_data_clears_others(selected_chart, state_dict) ==
    LET results == or_default(calc_results(math_patterns(state_dict.user_query, 1))
                              \o viz_results(selected_chart, state_dict.user_query))
    IN  [state_dict EXCEPT
            !.agent_results = Put(EmptyDict, "analysis", Join(<<" | ">>, results))]

process_data(selected_chart, state_dict) ==
    LET results == or_default(calc_results(math_patterns(state_dict.user_query, 1))
                              \o viz_results(selected_chart, state_dict.user_query))
    IN  [state_dict EXCEPT
            !.agent_results = Put(@, "analysis", Join(<<" | ">>, results))]

---------------------------------------------------------------------------
(* SimpleAgent *)

math_keywords ==
    <<
      <<"c","a","l","c","u","l","a","t","e">>,
      <<"w","h","a","t"," ","i","s">>,
      <<"+">>,
      <<"-">>,
      <<"*">>,
      <<"/">>,
      <<"p","l","u","s">>,
      <<"m","i","n","u","s">>,
      <<"t","i","m","e","s">>
    >>

\* _check_math_need: a digit and a math keyword in the lower-cased input
check_math_need(user_input) ==
    LET has_numbers    == \E i \in 1..Len(user_input) : IsDigit(lower(user_input)[i])
        has_math_words == AnyKeywordIn(math_keywords, user_input)
    IN  has_numbers /\ has_math_words

IsSpace(c) == c \in {" ", "\t", "\n"}

RECURSIVE lstrip(_)
lstrip(s) == IF s # <<>> /\ IsSpace(Head(s)) THEN lstrip(Tail(s)) ELSE s

RECURSIVE rstrip(_)
rstrip(s) == IF s # <<>> /\ IsSpace(s[Len(s)]) THEN rstrip(SubSeq(s, 1, Len(s) - 1)) ELSE s

\* str.strip()
strip(s) == rstrip(lstrip(s))

\* _do_math: the value of state["result"]
do_math(user_input) ==
    LET matches == math_patterns(user_input, 1)
    IN  IF matches # <<>>
        THEN <<"The answer is: ">> \o advanced_calculator(strip(matches[1]))
        ELSE <<"I couldn't find a math expression to calculate.">>

\* the predefined responses of _chat_response, in insertion order
responses ==
    <<
      [pattern  |-> <<"h","o","w"," ","a","r","e"," ","y","o","u">>,
       response |-> <<"I'm doing great! I'm a helpful AI agent that can chat and do math calculations.">>],
      [pattern  |-> <<"w","h","o"," ","a","r","e"," ","y","o","u">>,
       response |-> <<"I'm a simple LangGraph agent powered by E2E Networks. I can help with conversations and mathematical calculations!">>],
      [pattern  |-> <<"h","e","l","l","o">>,
       response |-> <<"Hello! How can I help you today? I can chat or help with math calculations.">>],
      [pattern  |-> <<"h","i">>,
       response |-> <<"Hi there! How can I help you today? I can chat or help with math calculations.">>]
    >>

\* the input holds the pattern of a predefined response
HasPredefined(user_input) ==
    \E k \in 1..Len(responses) : Contains(lower(user_input), responses[k].pattern)

ChatFallback ==
    <<"I'm a helpful AI assistant powered by E2E Networks. I can help with math calculations and conversations!">>

\* _chat_response: the value of state["result"], llm_result being the value
\* call_e2e_llm returns when it is called
chat_response(configured, llm_result, user_input) ==
    LET hits == { k \in 1..Len(responses) :
                    Contains(lower(user_input), responses[k].pattern) }
    IN  IF hits # {}
        THEN responses[CHOOSE k \in hits : \A j \in hits : k <= j].response
        ELSE IF configured /\ ~IsLLMFailure(llm_result)
        THEN <<"(robot) ">> \o llm_result
        ELSE ChatFallback

\* SimpleAgent.process_query: the state dict returned
simple_process_query(configured, llm_result, user_input) ==
    [ user_input |-> user_input,
      needs_math |-> check_math_need(user_input),
      result     |-> IF check_math_need(user_input)
                     THEN do_math(user_input)
                     ELSE chat_response(configured, llm_result, user_input) ]

---------------------------------------------------------------------------
(* multi_agent_workflow.py: routing functions *)

\* route_to_next_agent advancing the cursor by two
route_to_next_agent_skips(state_dict) ==
    IF state_dict.current_step >= Len(state_dict.task_plan)
    THEN [answer |-> "finalize", state |-> state_dict]
    ELSE [answer |-> state_dict.task_plan[state_dict.current_step + 1].agent,
          state  |-> [state_dict EXCEPT !.current_step = @ + 2]]

\* route_to_next_agent leaving the cursor where it is
route_to_next_agent_stays(state_dict) ==
    IF state_dict.current_step >= Len(state_dict.task_plan)
    THEN [answer |-> "finalize", state |-> state_dict]
    ELSE [answer |-> state_dict.task_plan[state_dict.current_step + 1].agent,
          state  |-> state_dict]

\* route_to_next_agent: the answer and the state dict it leaves
route_to_next_agent(state_dict) ==
    IF state_dict.current_step >= Len(state_dict.task_plan)
    THEN [answer |-> "finalize", state |-> state_dict]
    ELSE [answer |-> state_dict.task_plan[state_dict.current_step + 1].agent,
          state  |-> [state_dict EXCEPT !.current_step = @ + 1]]

\* should_continue that finalizes after the first executor
should_continue_finalizes(state_dict) ==
    "finalize"

\* should_continue that always sends the run back to the planner
should_continue_continues(state_dict) ==
    "continue"

should_continue(state_dict) ==
    IF state_dict.current_step < Len(state_dict.task_plan)
    THEN "continue"
    ELSE "finalize"



\* the node the graph maps an answer of route_to_next_agent to
RouteTarget(answer) ==
    IF answer = "finalize" THEN "finalize_results" ELSE "execute_" \o answer

\* the node the graph maps an answer of should_continue to
ContinueTarget(answer) ==
    IF answer = "continue" THEN "start_coordination" ELSE "finalize_results"

initial_state(query) ==
    [ user_query    |-> query,
      task_plan     |-> <<>>,
      agent_results |-> EmptyDict,
      final_result  |-> <<>>,
      current_step  |-> 0,
      metadata      |-> [ agents_used      |-> <<>>,
                          total_steps      |-> 0,
                          end_time         |-> FALSE,
                          duration_seconds |-> FALSE ] ]

\* the attempts' outcomes one call of call_e2e_llm may meet
OutcomeSeqs == [1..DefaultMaxRetries -> LLMOutcomes]

\* what a tool may get from call_e2e_llm with a client configured, and with
\* or without one
ConfiguredLLMCalls == { tool_llm_call(TRUE, outcomes) : outcomes \in OutcomeSeqs }

LLMCalls(configured) == IF configured THEN ConfiguredLLMCalls ELSE { NoLLMCall }

\* no direct call made yet
NoCall == [arg |-> <<>>, value |-> <<>>]

NodeNames ==
    { "start_coordination", "execute_research", "execute_analysis",
      "execute_writing", "finalize_results" }

---------------------------------------------------------------------------
(* MultiAgentSystem: process_query, the graph run it invokes, clear_history *)

Init ==
    /\ client \in BOOLEAN
    /\ pc = "idle"
    /\ state = initial_state(<<>>)
    /\ supersteps = 0
    /\ dispatched = <<>>
    /\ conversation_history = <<>>
    /\ retry = NoRetry
    /\ llm_call = NoLLMCall
    /\ call = NoCall

\* process_query up to workflow.invoke(initial_state)
ProcessQuery(query) ==
    /\ pc = "idle"
    /\ state' = initial_state(query)
    /\ pc' = "start_coordination"
    /\ supersteps' = 0
    /\ dispatched' = <<>>
    /\ UNCHANGED <<call, llm_call, retry, client, conversation_history>>

\* node start_coordination
StartCoordination ==
    /\ pc = "start_coordination"
    /\ supersteps < RecursionLimit
    /\ state' = plan_task(state)
    /\ pc' = "route_to_next_agent"
    /\ supersteps' = supersteps + 1
    /\ UNCHANGED <<call, llm_call, retry, client, dispatched, conversation_history>>

\* the conditional edge out of start_coordination; the state dict is one
\* object, so the cursor the edge function advances is the cursor the next
\* node and the next edge function read
RouteToNextAgent ==
    /\ pc = "route_to_next_agent"
    /\ LET r == route_to_next_agent(state) IN
        /\ state' = r.state
        /\ pc' = RouteTarget(r.answer)
        /\ dispatched' = IF r.answer = "finalize" THEN dispatched
                         ELSE Append(dispatched, r.answer)
    /\ UNCHANGED <<call, llm_call, retry, client, supersteps, conversation_history>>

\* node execute_research
ExecuteResearch ==
    /\ pc = "execute_research"
    /\ supersteps < RecursionLimit
    /\ \E c \in LLMCalls(client) :
          /\ state' = gather_information(client, c.result, state)
          /\ llm_call' = c
    /\ pc' = "should_continue"
    /\ supersteps' = supersteps + 1
    /\ UNCHANGED <<call, retry, client, dispatched, conversation_history>>

\* node execute_analysis
ExecuteAnalysis ==
    /\ pc = "execute_analysis"
    /\ supersteps < RecursionLimit
    /\ \E selected_chart \in chart_types :
          state' = process_data(selected_chart, state)
    /\ llm_call' = NoLLMCall
    /\ pc' = "should_continue"
    /\ supersteps' = supersteps + 1
    /\ UNCHANGED <<call, retry, client, dispatched, conversation_history>>

\* node execute_writing
ExecuteWriting ==
    /\ pc = "execute_writing"
    /\ supersteps < RecursionLimit
    /\ \E c \in LLMCalls(client) :
          /\ state' = create_content(client, c.result, state)
          /\ llm_call' = c
    /\ pc' = "should_continue"
    /\ supersteps' = supersteps + 1
    /\ UNCHANGED <<call, retry, client, dispatched, conversation_history>>

\* the conditional edge out of each executor node
ShouldContinue ==
    /\ pc = "should_continue"
    /\ pc' = ContinueTarget(should_continue(state))
    /\ UNCHANGED <<call, llm_call, retry, client, state, supersteps, dispatched, conversation_history>>

\* node finalize_results, whose edge leads to END
FinalizeResults ==
    /\ pc = "finalize_results"
    /\ supersteps < RecursionLimit
    /\ state' = aggregate_results(state)
    /\ pc' = "END"
    /\ supersteps' = supersteps + 1
    /\ UNCHANGED <<call, llm_call, retry, client, dispatched, conversation_history>>

\* the graph engine gives up: invoke raises GraphRecursionError, which
\* process_query lets through to its caller
RecursionError ==
    /\ pc \in NodeNames
    /\ supersteps >= RecursionLimit
    /\ pc' = "raised"
    /\ UNCHANGED <<call, llm_call, retry, client, state, supersteps, dispatched, conversation_history>>

\* process_query after workflow.invoke returned
Return ==
    /\ pc = "END"
    /\ state' = [state EXCEPT !.metadata =
                    [@ EXCEPT !.duration_seconds = state.metadata.end_time]]
    /\ conversation_history' =
          Append(conversation_history, [query |-> state.user_query, result |-> state'])
    /\ pc' = "returned"
    /\ UNCHANGED <<call, llm_call, retry, client, supersteps, dispatched>>

Next ==
    \/ \E query \in Queries : ProcessQuery(query)
    \/ StartCoordination
    \/ RouteToNextAgent
    \/ ExecuteResearch
    \/ ExecuteAnalysis
    \/ ExecuteWriting
    \/ ShouldContinue
    \/ FinalizeResults
    \/ RecursionError
    \/ Return

Spec == Init /\ [][Next]_vars

---------------------------------------------------------------------------
(* A session: one MultiAgentSystem processing several queries in turn *)

SessionQueries == { Q_Chart, Q_Product, Q_Write, Q_Explain, Q_Hello }

\* process_query reusing the result mapping of the previous call
ProcessNextQuery_keeps_results(query) ==
    /\ pc \in {"returned", "raised"}
    /\ Len(conversation_history) < MaxCalls
    /\ state' = [initial_state(query) EXCEPT !.agent_results = state.agent_results]
    /\ pc' = "start_coordination"
    /\ supersteps' = 0
    /\ dispatched' = <<>>
    /\ UNCHANGED <<call, llm_call, retry, client, conversation_history>>

\* process_query called again after the previous call returned or raised,
\* up to workflow.invoke(initial_state)
ProcessNextQuery(query) ==
    /\ pc \in {"returned", "raised"}
    /\ Len(conversation_history) < MaxCalls
    /\ state' = initial_state(query)
    /\ pc' = "start_coordination"
    /\ supersteps' = 0
    /\ dispatched' = <<>>
    /\ UNCHANGED <<call, llm_call, retry, client, conversation_history>>

\* clear_history that keeps the oldest entry
clear_history_keeps_first(history) == SubSeq(history, 1, 1)

\* self.conversation_history = []
clear_history(history) == <<>>

\* system.clear_history() between two calls of process_query
ClearHistory ==
    /\ pc \in {"idle", "returned", "raised"}
    /\ conversation_history # <<>>
    /\ conversation_history' = clear_history(conversation_history)
    /\ UNCHANGED <<call, llm_call, retry, client, pc, state, supersteps, dispatched>>

SessionNext ==
    \/ \E query \in SessionQueries : ProcessQuery(query)
    \/ \E query \in SessionQueries : ProcessNextQuery(query)
    \/ StartCoordination
    \/ RouteToNextAgent
    \/ ExecuteResearch
    \/ ExecuteAnalysis
    \/ ExecuteWriting
    \/ ShouldContinue
    \/ FinalizeResults
    \/ RecursionError
    \/ Return
    \/ ClearHistory

SessionSpec == Init /\ [][SessionNext]_vars

---------------------------------------------------------------------------
(* The functions called directly, one call on arguments of the caller's     *)
(* choice, as the test scripts call the agents' methods and the calculator  *)

\* result strings the executors produce, per tag
ResultValues(tag) ==
    CASE tag = "research" ->
            { fallback_research(Q_MachineLearning),
              <<"(magnifier) **E2E Research Results:** ">> \o LLMCompletion }
      [] tag = "analysis" ->
            { AnalysisCompleted, advanced_calculator(Q_Product) }
      [] OTHER ->
            { <<"(memo) **Fallback Content:** ">> \o fallback_style(Q_Write, "informative"),
              <<"(memo) **E2E Generated Content:** ">> \o LLMCompletion }

\* the result mappings over every subset of the tags
ResultMappings ==
    UNION { [tags -> UNION { ResultValues(tag) : tag \in tags }]
              : tags \in SUBSET {"research", "analysis", "writing"} }

WellTagged(mapping) == \A tag \in DOMAIN mapping : mapping[tag] \in ResultValues(tag)

\* queries handed to the executors directly
ExecutorQueries == { Q_MachineLearning, Q_ClimateSummary, Q_Hello, Q_Write, Q_Empty }

E_TenPlusFive ==
    <<"1","0"," ","+"," ","5">>

E_Quotient ==
    <<"1","0","0"," ","/"," ","4">>

E_AverageOfFive ==
    <<"a","v","e","r","a","g","e"," ","o","f"," ","1",",","2",",","3",",","4",",","5">>

E_SumOfThree ==
    <<"s","u","m"," ","o","f"," ","1","0",",","2","0",",","3","0">>

E_DivideByZero ==
    <<"1"," ","/"," ","0">>

E_Dangling ==
    <<"1","0"," ","+">>

E_Letters ==
    <<"a","b","c">>

E_Blank ==
    <<" ">>

E_LeadingZero ==
    <<"0","8"," ","+"," ","1">>

E_TwoNumbers ==
    <<"7"," ","%"," ","2">>

Q_DivideByZero ==
    <<"C","a","l","c","u","l","a","t","e"," ","1"," ","/"," ","0">>

Q_Dangling ==
    <<"C","o","m","p","a","r","e"," ","1","0"," ","+"," ","a","n","d"," ","5">>

Q_ZeroAndProduct ==
    <<"C","a","l","c","u","l","a","t","e"," ","1"," ","/"," ","0"," ","a","n","d"," ","2"," ",
      "*"," ","3">>

kw_of ==
    <<" ","o","f"," ">>

\* the expressions quick_test.py hands to the calculator
test_expressions ==
    { E_TenPlusFive, Q_Product, E_Quotient, E_AverageOfFive, E_SumOfThree }

\* expressions whose evaluation raises: ZeroDivisionError for the first,
\* SyntaxError for the others (dangling operator, nothing left after the
\* letters are removed, empty, blank, leading zero, two numbers in a row)
RaisingExpressions ==
    { E_DivideByZero, E_Dangling, E_Letters, Q_Empty, E_Blank, E_LeadingZero, E_TwoNumbers }

\* operands of the generated expressions
Operands == (0 - MaxOperand)..MaxOperand

\* the lists of 1..MaxList operands
OperandLists == UNION { [1..k -> Operands] : k \in 1..MaxList }

\* f"{a} + {b}"
AdditionOf(a, b) == IntToChars(a) \o <<" ", "+", " ">> \o IntToChars(b)

\* f"{word} of {n1},...,{nk}"
AggregateOf(word, numbers) ==
    word \o kw_of \o Join(<<",">>, [i \in 1..Len(numbers) |-> IntToChars(numbers[i])])

CalcExpressions ==
    test_expressions \cup RaisingExpressions
    \cup { AdditionOf(a, b) : a \in Operands, b \in Operands }
    \cup { AggregateOf(word, numbers) : word \in {kw_average, kw_sum}, numbers \in OperandLists }

\* queries handed to the analysis executor directly
AnalysisQueries ==
    { Q_MachineLearning, Q_AverageReport, Q_Product, Q_Chart, Q_Hello,
      Q_DivideByZero, Q_Dangling, Q_ZeroAndProduct, E_SumOfThree }

UnitInit ==
    /\ client \in BOOLEAN
    /\ pc = "caller"
    /\ state = initial_state(<<>>)
    /\ supersteps = 0
    /\ dispatched = <<>>
    /\ conversation_history = <<>>
    /\ retry = NoRetry
    /\ llm_call = NoLLMCall
    /\ call = NoCall

\* coordinator.plan_task(state) on a fresh state dict
Call_plan_task ==
    /\ pc = "caller"
    /\ \E query \in Queries \cup PhraseQueries :
          state' = plan_task(initial_state(query))
    /\ pc' = "plan_task"
    /\ UNCHANGED <<call, llm_call, retry, client, supersteps, dispatched, conversation_history>>

\* coordinator.aggregate_results(state) on a planned state dict holding any
\* result mapping
Call_aggregate_results ==
    /\ pc = "caller"
    /\ \E query \in Queries, mapping \in ResultMappings :
          /\ WellTagged(mapping)
          /\ state' = aggregate_results(
                         [plan_task(initial_state(query)) EXCEPT !.agent_results = mapping])
    /\ pc' = "aggregate_results"
    /\ UNCHANGED <<call, llm_call, retry, client, supersteps, dispatched, conversation_history>>

\* client.call_with_retry(prompt, max_retries), the backend answering the
\* attempts with `outcomes`
Call_call_with_retry ==
    /\ pc = "caller"
    /\ \E max_retries \in 0..MaxRetries :
         \E outcomes \in [1..max_retries -> LLMOutcomes] :
            retry' = [ max_retries |-> max_retries,
                       outcomes    |-> outcomes,
                       returned    |-> call_with_retry(outcomes, max_retries) ]
    /\ pc' = "call_with_retry"
    /\ UNCHANGED <<call, llm_call, client, state, supersteps, dispatched, conversation_history>>

\* results other executors may have written before an executor is called
PriorResults(query) ==
    [ research |-> fallback_research(query),
      analysis |-> or_default(<<>>)[1],
      writing  |-> content_generator(FALSE, <<>>, query, content_style(query)) ]

\* the state dicts an executor is handed for a query: the fresh one of
\* process_query or the one the planner and the router have worked on,
\* holding the results of the executors named in tags
ExecutorStates(query, tags) ==
    { [base EXCEPT !.agent_results = [tag \in held |-> PriorResults(query)[tag]]] :
         base \in { initial_state(query),
                    route_to_next_agent(plan_task(initial_state(query))).state },
         held \in { {}, tags } }

\* research_agent.gather_information(state)
Call_gather_information ==
    /\ pc = "caller"
    /\ \E query \in ExecutorQueries, c \in LLMCalls(client) :
       \E state_dict \in ExecutorStates(query, {"analysis", "writing"}) :
          /\ state' = gather_information(client, c.result, state_dict)
          /\ llm_call' = c
          /\ call' = [arg |-> state_dict, value |-> state']
    /\ pc' = "gather_information"
    /\ UNCHANGED <<retry, client, supersteps, dispatched, conversation_history>>

\* writing_agent.create_content(state) on a state dict with or without a
\* research result
Call_create_content ==
    /\ pc = "caller"
    /\ \E query \in ExecutorQueries, c \in LLMCalls(client) :
       \E state_dict \in ExecutorStates(query, {"research"})
                            \cup ExecutorStates(query, {"research", "analysis"}) :
          /\ state' = create_content(client, c.result, state_dict)
          /\ llm_call' = c
          /\ call' = [arg |-> state_dict, value |-> state']
    /\ pc' = "create_content"
    /\ UNCHANGED <<retry, client, supersteps, dispatched, conversation_history>>

\* advanced_calculator.invoke({"expression": expression})
Call_advanced_calculator ==
    /\ pc = "caller"
    /\ \E expression \in CalcExpressions :
          call' = [arg |-> expression, value |-> advanced_calculator(expression)]
    /\ pc' = "advanced_calculator"
    /\ UNCHANGED <<llm_call, retry, client, state, supersteps, dispatched, conversation_history>>

\* analysis_agent.process_data(state)
Call_process_data ==
    /\ pc = "caller"
    /\ \E query \in AnalysisQueries, selected_chart \in chart_types :
       \E state_dict \in ExecutorStates(query, {"research", "writing"}) :
          /\ state' = process_data(selected_chart, state_dict)
          /\ call' = [arg |-> state_dict, value |-> state']
    /\ pc' = "process_data"
    /\ UNCHANGED <<llm_call, retry, client, supersteps, dispatched, conversation_history>>

\* route_to_next_agent(state) on a planned state dict whose cursor stands
\* anywhere from the first step to past the end of the plan
Call_route_to_next_agent ==
    /\ pc = "caller"
    /\ \E query \in Queries :
       \E step \in 0..(Len(build_plan(query)) + 1) :
          LET state_dict == [plan_task(initial_state(query)) EXCEPT !.current_step = step]
              r          == route_to_next_agent(state_dict)
          IN  /\ state' = r.state
              /\ call' = [arg |-> state_dict, value |-> r.answer]
    /\ pc' = "called route_to_next_agent"
    /\ UNCHANGED <<llm_call, retry, client, supersteps, dispatched, conversation_history>>

S_HelloHowAreYou ==
    <<"H","e","l","l","o",","," ","h","o","w"," ","a","r","e"," ","y","o","u","?">>

S_WhatIsTenPlusFive ==
    <<"W","h","a","t"," ","i","s"," ","1","0"," ","+"," ","5","?">>

S_TellMeAJoke ==
    <<"T","e","l","l"," ","m","e"," ","a"," ","j","o","k","e">>

S_WhatIsAI ==
    <<"W","h","a","t"," ","i","s"," ","a","r","t","i","f","i","c","i","a","l"," ","i","n","t","e","l","l","i","g","e","n","c","e","?">>

S_WhatIsFivePlusThree ==
    <<"W","h","a","t"," ","i","s"," ","5"," ","+"," ","3","?">>

S_CalculateProduct ==
    <<"C","a","l","c","u","l","a","t","e"," ","1","0","0"," ","*"," ","2">>

S_HowAreYou ==
    <<"H","o","w"," ","a","r","e"," ","y","o","u","?">>

S_SevenWonders ==
    <<"N","a","m","e"," ","t","h","e"," ","7"," ","w","o","n","d","e","r","s">>

S_PlusOnly ==
    <<"o","n","e"," ","p","l","u","s"," ","t","w","o">>

\* the inputs of test_simple_agent, the Simple Math examples of the app, a
\* bare expression, and inputs with a digit only or a math keyword only
SimpleQueries ==
    { S_HelloHowAreYou, S_WhatIsTenPlusFive, S_TellMeAJoke, S_WhatIsAI,
      S_WhatIsFivePlusThree, S_CalculateProduct, S_HowAreYou, S_SevenWonders, S_PlusOnly,
      E_TenPlusFive, Q_Product, Q_Empty }

\* call_e2e_llm(prompt), the backend answering the attempts with `outcomes`;
\* without a client no attempt is made
Call_call_e2e_llm ==
    /\ pc = "caller"
    /\ \E outcomes \in IF client THEN OutcomeSeqs ELSE { <<>> } :
          /\ call' = [arg |-> outcomes, value |-> call_e2e_llm(client, outcomes)]
          /\ llm_call' = [ncalls |-> e2e_llm_calls(client, outcomes),
                          result |-> call_e2e_llm(client, outcomes)]
    /\ pc' = "call_e2e_llm"
    /\ UNCHANGED <<retry, client, state, supersteps, dispatched, conversation_history>>

\* agent.process_query(user_input) on a SimpleAgent; call_e2e_llm is called
\* only on the chat path, when no predefined response fits and a client is
\* configured
Call_simple_process_query ==
    /\ pc = "caller"
    /\ \E user_input \in SimpleQueries :
       \E c \in IF check_math_need(user_input) \/ HasPredefined(user_input)
                THEN {NoLLMCall} ELSE LLMCalls(client) :
          /\ call' = [arg |-> user_input,
                      value |-> simple_process_query(client, c.result, user_input)]
          /\ llm_call' = c
    /\ pc' = "SimpleAgent.process_query"
    /\ UNCHANGED <<retry, client, state, supersteps, dispatched, conversation_history>>

UnitNext ==
    \/ Call_plan_task
    \/ Call_aggregate_results
    \/ Call_call_with_retry
    \/ Call_gather_information
    \/ Call_create_content
    \/ Call_advanced_calculator
    \/ Call_process_data
    \/ Call_route_to_next_agent
    \/ Call_simple_process_query
    \/ Call_call_e2e_llm

UnitSpec == UnitInit /\ [][UnitNext]_vars

---------------------------------------------------------------------------
(* Claims about the graph run *)

\* the agents a plan names, in plan order
PlanAgents(plan) == [i \in 1..Len(plan) |-> plan[i].agent]

IsPrefix(s, t) == Len(s) <= Len(t) /\ SubSeq(t, 1, Len(s)) = s

Count(symbol, s) == Cardinality({ i \in 1..Len(s) : s[i] = symbol })

\* the first position of symbol in s, 0 when s does not hold it
IndexOf(symbol, s) ==
    IF \E i \in 1..Len(s) : s[i] = symbol
    THEN CHOOSE i \in 1..Len(s) : s[i] = symbol /\ \A j \in 1..(i - 1) : s[j] # symbol
    ELSE 0

\* process_query has come back to its caller, with a result or an exception
RunOver == pc \in {"returned", "raised"}

\* C1: every run of process_query through the graph reaches
\* finalize_results and ends at END, whatever the length of the plan: a run
\* that is over has passed finalize_results and returned.
C1_RunReachesEnd == RunOver => (pc = "returned" /\ state.metadata.end_time)

\* C2: the executors dispatched in a run are the steps of the plan, each
\* once and in plan order: at every moment the dispatch history is a prefix
\* of the plan, and it is the whole plan when the run ends.
C2_DispatchWalksPlan ==
    /\ IsPrefix(dispatched, PlanAgents(state.task_plan))
    /\ pc = "END" => dispatched = PlanAgents(state.task_plan)

\* the tags with a labeled section in text, and whether each label occurs once
SectionTags(text) ==
    { tag \in {"research", "analysis", "writing"} :
        Count(CASE tag = "research" -> ResearchLabel
                [] tag = "analysis" -> AnalysisLabel
                [] OTHER -> WritingLabel, text) = 1 }

NoRepeatedLabel(text) ==
    \A label \in {ResearchLabel, AnalysisLabel, WritingLabel} : Count(label, text) <= 1

\* C3: a run that is over has left a final_result holding exactly one
\* labeled section for each tag of the plan and none for any other tag.
C3_RoundTrip ==
    RunOver =>
        /\ NoRepeatedLabel(state.final_result)
        /\ SectionTags(state.final_result)
             = { state.task_plan[i].agent : i \in 1..Len(state.task_plan) }

\* C4: the run for "What is machine learning and calculate 10 + 5?" plans
\* [research, analysis], dispatches the analysis executor and ends with a
\* research section followed by an analysis section that holds 15.
C4_Outcome ==
    LET text == state.final_result
        a    == IndexOf(AnalysisLabel, text)
    IN  /\ PlanAgents(state.task_plan) = <<"research", "analysis">>
        /\ \E i \in 1..Len(dispatched) : dispatched[i] = "analysis"
        /\ IndexOf(ResearchLabel, text) > 0
        /\ IndexOf(ResearchLabel, text) < a
        /\ Contains(SubSeq(text, a + 1, Len(text)), <<"1", "5">>)

C4_EndToEnd ==
    (RunOver /\ state.user_query = Q_MachineLearning) => C4_Outcome

\* C5: no executor is dispatched a second time in a run, so no tag's entry
\* of agent_results is written twice.
C5_DispatchedOnce ==
    \A i, j \in 1..Len(dispatched) : dispatched[i] = dispatched[j] => i = j

\* C6: the step cursor is between 0 and the length of the plan in every
\* state of a run.
C6_CursorInPlan ==
    /\ state.current_step >= 0
    /\ state.current_step <= Len(state.task_plan)

\* the router has advanced the cursor to the end of a plan
C6_Witness ==
    /\ pc = "execute_analysis"
    /\ state.current_step = 1
    /\ Len(state.task_plan) = 1

---------------------------------------------------------------------------
(* Claims about the functions *)

\* p occurs in s, position by position
Occurs(p, s) ==
    \E i \in 1..(Len(s) - Len(p) + 1) : \A j \in 1..Len(p) : s[i + j - 1] = p[j]

\* some keyword of the list occurs in the lower-cased query
Matches(keywords, query) ==
    \E k \in 1..Len(keywords) : Occurs(keywords[k], lower(query))

MatchedTags(query) ==
    { tag \in {"research", "analysis", "writing"} :
        Matches(CASE tag = "research" -> research_keywords
                  [] tag = "analysis" -> analysis_keywords
                  [] OTHER -> writing_keywords, query) }

\* C7: a query in which no keyword of the three lists occurs gets exactly the
\* default plan [research, writing].
C7_DefaultPlan ==
    (pc = "plan_task" /\ MatchedTags(state.user_query) = {}) =>
        state.task_plan = <<ResearchStep, WritingStep>>

\* plan_task has planned a query of several words that holds no keyword
C7_Witness ==
    /\ pc = "plan_task"
    /\ Len(state.user_query) > 10
    /\ MatchedTags(state.user_query) = {}
    /\ PlanAgents(state.task_plan) = <<"research", "writing">>

TagRank(tag) == CASE tag = "research" -> 1 [] tag = "analysis" -> 2 [] OTHER -> 3

\* C8: a query matching at least one keyword list gets a plan that lists
\* each matched tag exactly once, no unmatched tag, in the order research,
\* analysis, writing, wherever the keywords stand in the query.
C8_PlanOrder ==
    (pc = "plan_task" /\ MatchedTags(state.user_query) # {}) =>
        LET agents == PlanAgents(state.task_plan) IN
        /\ \A tag \in MatchedTags(state.user_query) : Count(tag, agents) = 1
        /\ \A i \in 1..Len(agents) : agents[i] \in MatchedTags(state.user_query)
        /\ \A i, j \in 1..Len(agents) : i < j => TagRank(agents[i]) < TagRank(agents[j])
        /\ \A i \in 1..Len(agents) :
              state.task_plan[i] = CASE agents[i] = "research" -> ResearchStep
                                     [] agents[i] = "analysis" -> AnalysisStep
                                     [] OTHER -> WritingStep

\* plan_task has planned "Write compare Explain", whose keywords stand in the
\* order writing, analysis, research
C8_Witness ==
    /\ pc = "plan_task"
    /\ state.user_query = Join(<<" ">>, <<Phrases[3], Phrases[2], Phrases[1]>>)
    /\ PlanAgents(state.task_plan) = <<"research", "analysis", "writing">>

TagLabel(tag) ==
    CASE tag = "research" -> ResearchLabel
      [] tag = "analysis" -> AnalysisLabel
      [] OTHER -> WritingLabel

\* C9: final_result is made of the result mapping alone: one labeled section
\* per tag present, in the order research, analysis, writing, a blank line
\* between sections, nothing before, between or after them.
C9_Aggregation ==
    pc = "aggregate_results" =>
        LET results == state.agent_results
            text    == state.final_result
            present == { tag \in {"research", "analysis", "writing"} : tag \in DOMAIN results }
            start(tag) == IndexOf(TagLabel(tag), text)
            end(tag)   == start(tag) + Len(results[tag])
        IN  /\ \A tag \in {"research", "analysis", "writing"} :
                  Count(TagLabel(tag), text) = IF tag \in present THEN 1 ELSE 0
            /\ \A tag \in present :
                  /\ end(tag) <= Len(text)
                  /\ SubSeq(text, start(tag) + 1, end(tag)) = results[tag]
                  \* the first section opens the text, any other follows a blank line
                  /\ IF \A other \in present : TagRank(other) >= TagRank(tag)
                     THEN start(tag) = 1
                     ELSE \E prev \in present :
                            /\ TagRank(prev) < TagRank(tag)
                            /\ \A other \in present :
                                  TagRank(other) < TagRank(tag) => TagRank(other) <= TagRank(prev)
                            /\ start(tag) = end(prev) + 2
                            /\ text[end(prev) + 1] = "\n\n"
                  \* the last section closes the text
                  /\ (\A other \in present : TagRank(other) <= TagRank(tag))
                        => end(tag) = Len(text)
            /\ present = {} => text = <<>>

\* aggregate_results has run on a mapping holding writing and research only
C9_Witness ==
    /\ pc = "aggregate_results"
    /\ DOMAIN state.agent_results = {"research", "writing"}
    /\ IndexOf(ResearchLabel, state.final_result) = 1
    /\ IndexOf(WritingLabel, state.final_result) > 1
    /\ Count(AnalysisLabel, state.final_result) = 0

\* the attempts whose outcome is a string that does not start with "Error"
GoodAttempts(outcomes) ==
    { k \in 1..Len(outcomes) :
        /\ outcomes[k].kind = "text"
        /\ ~(Len(outcomes[k].value) >= 5 /\ SubSeq(outcomes[k].value, 1, 5) = ErrorPrefix) }

\* C10: call_with_retry calls call_llm at most max_retries times, returns the
\* first result that is not an error at once, and when every attempt fails or
\* raises it returns an error string and raises nothing.
C10_RetryContract ==
    pc = "call_with_retry" =>
        LET good == GoodAttempts(retry.outcomes)
            r    == retry.returned
        IN  /\ r.ncalls <= retry.max_retries
            /\ ~r.raised
            /\ good # {} =>
                  LET first == CHOOSE k \in good : \A j \in good : k <= j
                  IN  r.result = retry.outcomes[first].value /\ r.ncalls = first
            /\ good = {} =>
                  /\ Len(r.result) >= 5
                  /\ SubSeq(r.result, 1, 5) = <<"E", "r", "r", "o", "r">>
                  /\ r.ncalls = retry.max_retries

\* three attempts, the first two failing and the third giving a completion
C10_Witness ==
    /\ pc = "call_with_retry"
    /\ retry.max_retries = 3
    /\ retry.outcomes = <<NoneOutcome, TextOutcome(LLMStatusError), TextOutcome(LLMCompletion)>>
    /\ retry.returned.result = LLMCompletion
    /\ retry.returned.ncalls = 3

\* three attempts that all fail, the last one raising
C10_WitnessAllFail ==
    /\ pc = "call_with_retry"
    /\ retry.max_retries = 3
    /\ retry.outcomes = <<TextOutcome(LLMConnectError), NoneOutcome, NoneOutcome>>
    /\ retry.returned.result = ErrorAfterAttempts(3)

FallbackContent(query) ==
    <<"(memo) **Fallback Content:** ">> \o fallback_style(query, content_style(query))

\* C12: with no backend client configured the research and writing executors
\* make no backend call and write their static fallback text into the result
\* mapping, and the run ends without an error surfaced to the caller of
\* process_query.
C12_SilentFallback ==
    ~client =>
        /\ llm_call.ncalls = 0
        /\ "research" \in DOMAIN state.agent_results =>
              state.agent_results["research"] = fallback_research(state.user_query)
        /\ "writing" \in DOMAIN state.agent_results =>
              IsPrefix(FallbackContent(state.user_query), state.agent_results["writing"])
        /\ pc # "raised"

\* every attempt of the executor's backend call failed: the retries were used
\* up and call_e2e_llm gave an error string
AllAttemptsFailed ==
    /\ llm_call.ncalls = DefaultMaxRetries
    /\ Len(llm_call.result) >= 5
    /\ SubSeq(llm_call.result, 1, 5) = <<"E", "r", "r", "o", "r">>

\* C13: with a client configured and every backend call failing, the research
\* and writing executors return, having written exactly the text they write
\* when no client is configured.
C13_FailedBackendFallsBack ==
    /\ (pc = "gather_information" /\ client /\ AllAttemptsFailed) =>
          /\ state = gather_information(FALSE, NoLLMCall.result, call.arg)
          /\ state.agent_results["research"] = fallback_research(state.user_query)
    /\ (pc = "create_content" /\ client /\ AllAttemptsFailed) =>
          /\ state = create_content(FALSE, NoLLMCall.result, call.arg)
          /\ IsPrefix(FallbackContent(state.user_query), state.agent_results["writing"])

\* the writing executor has run with a client whose three attempts all failed
\* and has written the fallback content
C13_Witness ==
    /\ pc = "create_content"
    /\ client
    /\ llm_call.ncalls = 3
    /\ llm_call.result \in { MaxRetriesExceeded, ErrorAfterAttempts(3) }
    /\ state.user_query = Q_Write
    /\ state.agent_results["writing"] = FallbackContent(Q_Write)

\* the query holds a visualization keyword of the analysis executor
AsksForChart(query) ==
    \E kw \in { <<"c","h","a","r","t">>, <<"g","r","a","p","h">>,
                <<"v","i","s","u","a","l","i","z","e">>, <<"p","l","o","t">> } :
        Occurs(kw, lower(query))

\* two entries of the history have the same per-agent results and final text
SameOutcome(i, j) ==
    /\ conversation_history[i].result.agent_results
          = conversation_history[j].result.agent_results
    /\ conversation_history[i].result.final_result
          = conversation_history[j].result.final_result

\* C14 as stated: with no backend configured, two runs of the same query,
\* whatever the query, produce identical per-agent results and final text.
C14_Deterministic ==
    ~client =>
        \A i, j \in DOMAIN conversation_history :
            conversation_history[i].query = conversation_history[j].query
                => SameOutcome(i, j)

\* C14, amended: with no backend configured, two runs of the same query
\* produce identical per-agent results and final text when the query holds no
\* visualization keyword; with such a keyword they differ at most in the chart
\* type, which the analysis executor picks at random.
C14_DeterministicWithoutChart ==
    ~client =>
        \A i, j \in DOMAIN conversation_history :
            (/\ conversation_history[i].query = conversation_history[j].query
             /\ ~AsksForChart(conversation_history[i].query))
                => SameOutcome(i, j)

\* the same arithmetic query has been processed twice with no backend
C14_Witness ==
    /\ ~client
    /\ pc = "returned"
    /\ Len(conversation_history) = 2
    /\ conversation_history[1].query = Q_Product
    /\ conversation_history[2].query = Q_Product
    /\ "analysis" \in DOMAIN conversation_history[2].result.agent_results
    /\ SameOutcome(1, 2)

\* C15: when evaluating an arithmetic fragment raises (division by zero,
\* malformed, empty), advanced_calculator returns the sentinel
\* "(cross mark) Error in calculation", and the analysis executor handed a
\* query with such a fragment returns with an analysis result that holds the
\* sentinel.
C15_CalculatorSentinel ==
    /\ (pc = "advanced_calculator" /\ call.arg \in RaisingExpressions) =>
          call.value = <<"(cross mark) Error in calculation">>
    /\ (pc = "process_data"
            /\ state.user_query \in {Q_DivideByZero, Q_Dangling, Q_ZeroAndProduct}) =>
          /\ "analysis" \in DOMAIN state.agent_results
          /\ Count("(cross mark) Error in calculation", state.agent_results["analysis"]) = 1

\* the analysis executor has run on a query with a division by zero and a
\* product: the sentinel stands for the first, the product is computed
C15_Witness ==
    /\ pc = "process_data"
    /\ state.user_query = Q_ZeroAndProduct
    /\ state.agent_results["analysis"]
          = <<"(cross mark) Error in calculation", " | ",
              "(abacus) ", " ", "2", " ", "*", " ", "3", " = ", "6">>

\* the calculator has been handed a division by zero
C15_WitnessCalculator ==
    /\ pc = "advanced_calculator"
    /\ call.arg = E_DivideByZero
    /\ call.value = <<"(cross mark) Error in calculation">>

\* the characters a calculator answer shows after " = "
Shown(answer) == SubSeq(answer, IndexOf(" = ", answer) + 1, Len(answer))

\* the digit a character writes
DigitOf(c) == CHOOSE d \in 0..9 : ToString(d) = c

IsDigits(chars) ==
    /\ chars # <<>>
    /\ \A i \in 1..Len(chars) : \E d \in 0..9 : ToString(d) = chars[i]

RECURSIVE ReadNat(_)
\* the natural number a run of digits writes
ReadNat(chars) ==
    IF chars = <<>> THEN 0
    ELSE 10 * ReadNat(SubSeq(chars, 1, Len(chars) - 1)) + DigitOf(chars[Len(chars)])

Unsigned(chars) == IF chars # <<>> /\ chars[1] = "-" THEN Tail(chars) ELSE chars

SignOf(chars) == IF chars # <<>> /\ chars[1] = "-" THEN -1 ELSE 1

\* chars writes the integer n in decimal
WritesInt(chars, n) ==
    /\ IsDigits(Unsigned(chars))
    /\ SignOf(chars) * ReadNat(Unsigned(chars)) = n

\* chars writes a number with `places` decimals
IsDecimal(chars, places) ==
    LET u == Unsigned(chars) IN
    /\ Len(u) >= places + 2
    /\ u[Len(u) - places] = "."
    /\ IsDigits(SubSeq(u, 1, Len(u) - places - 1))
    /\ IsDigits(SubSeq(u, Len(u) - places + 1, Len(u)))

\* the number chars writes, in units of 10^-places
ReadDecimal(chars, places) ==
    LET u == Unsigned(chars) IN
    SignOf(chars) * ReadNat(SubSeq(u, 1, Len(u) - places - 1)
                            \o SubSeq(u, Len(u) - places + 1, Len(u)))

RECURSIVE SplitAtCommas(_)
\* the pieces of chars between its commas
SplitAtCommas(chars) ==
    IF Count(",", chars) = 0 THEN <<chars>>
    ELSE LET i == IndexOf(",", chars) IN
         <<SubSeq(chars, 1, i - 1)>> \o SplitAtCommas(SubSeq(chars, i + 1, Len(chars)))

\* expression is `head` followed by integers separated by commas
IsListAfter(head, expression) ==
    /\ IsPrefix(head, expression)
    /\ LET pieces == SplitAtCommas(SubSeq(expression, Len(head) + 1, Len(expression)))
       IN  \A i \in 1..Len(pieces) : IsDigits(Unsigned(pieces[i]))

\* the integers of such an expression
ListAfter(head, expression) ==
    LET pieces == SplitAtCommas(SubSeq(expression, Len(head) + 1, Len(expression)))
    IN  [i \in 1..Len(pieces) |-> SignOf(pieces[i]) * ReadNat(Unsigned(pieces[i]))]

RECURSIVE Total(_)
Total(numbers) == IF numbers = <<>> THEN 0 ELSE Head(numbers) + Total(Tail(numbers))

AverageOf == <<"a","v","e","r","a","g","e"," ","o","f"," ">>

SumOf == <<"s","u","m"," ","o","f"," ">>

\* C16: advanced_calculator agrees with arithmetic: 'a + b' gives a + b,
\* 'average of n1,...,nk' gives the mean rounded to two decimals, 'sum of
\* n1,...,nk' gives the total (written as a float); '10 + 5' gives 15,
\* 'average of 1,2,3,4,5' gives 3.00 and 'sum of 10,20,30' gives 60.
C16_CalculatorArithmetic ==
    pc = "advanced_calculator" =>
        /\ \A a, b \in Operands :
              call.arg = AdditionOf(a, b) => WritesInt(Shown(call.value), a + b)
        /\ IsListAfter(AverageOf, call.arg) =>
              LET numbers == ListAfter(AverageOf, call.arg) IN
              /\ IsDecimal(Shown(call.value), 2)
              /\ 2 * Abs(Len(numbers) * ReadDecimal(Shown(call.value), 2)
                            - 100 * Total(numbers)) <= Len(numbers)
        /\ IsListAfter(SumOf, call.arg) =>
              /\ IsDecimal(Shown(call.value), 1)
              /\ ReadDecimal(Shown(call.value), 1) = 10 * Total(ListAfter(SumOf, call.arg))
        /\ call.arg = E_TenPlusFive => Shown(call.value) = <<"1", "5">>
        /\ call.arg = E_AverageOfFive => Shown(call.value) = <<"3", ".", "0", "0">>
        /\ call.arg = E_SumOfThree => Shown(call.value) = <<"6", "0", ".", "0">>

\* the calculator has averaged 1, 2 and 2 to 1.67
C16_Witness ==
    /\ pc = "advanced_calculator"
    /\ call.arg = <<"a","v","e","r","a","g","e"," ","o","f"," ","1",",","2",",","2">>
    /\ Shown(call.value) = <<"1", ".", "6", "7">>

\* C17: route_to_next_agent answers "finalize" and leaves the cursor alone
\* when the cursor has reached the end of the plan; otherwise it answers the
\* executor of the step at the cursor and moves the cursor on by exactly one.
C17_RouteAtCursor ==
    pc = "called route_to_next_agent" =>
        LET before == call.arg
            cursor == before.current_step
            plan   == before.task_plan
        IN  IF cursor >= Len(plan)
            THEN /\ call.value = "finalize"
                 /\ state.current_step = cursor
                 /\ state = before
            ELSE /\ call.value = plan[cursor + 1].agent
                 /\ state.current_step = cursor + 1
                 /\ [state EXCEPT !.current_step = cursor] = before

\* the router has dispatched the second step of a three-step plan
C17_Witness ==
    /\ pc = "called route_to_next_agent"
    /\ Len(call.arg.task_plan) = 3
    /\ call.arg.current_step = 1
    /\ call.value = "analysis"
    /\ state.current_step = 2

\* the router has answered "finalize" with the cursor at the end of the plan
C17_WitnessFinalize ==
    /\ pc = "called route_to_next_agent"
    /\ Len(call.arg.task_plan) = 2
    /\ call.arg.current_step = 2
    /\ call.value = "finalize"
    /\ state.current_step = 2

\* C18: after an executor, should_continue sends the run back to
\* start_coordination exactly when current_step < len(task_plan) and to
\* finalize_results otherwise, and finalize_results is entered from an
\* executor only when every step of the plan has been dispatched.
C18_ContinueOrFinalize ==
    [][ pc = "should_continue" =>
          IF state.current_step < Len(state.task_plan)
          THEN pc' = "start_coordination"
          ELSE /\ pc' = "finalize_results"
               /\ dispatched = PlanAgents(state.task_plan) ]_vars

\* finalize_results has been entered after the only step of a plan ran
C18_Witness ==
    /\ pc = "finalize_results"
    /\ state.current_step = Len(state.task_plan)
    /\ dispatched = <<"analysis">>
    /\ "analysis" \in DOMAIN state.agent_results

\* the run has gone back to start_coordination after the first step of a
\* two-step plan
C18_WitnessContinue ==
    /\ pc = "start_coordination"
    /\ Len(state.task_plan) = 2
    /\ state.current_step = 1
    /\ Len(dispatched) = 1

\* C19: plan_task selects a tag exactly when a keyword of the tag's list is a
\* substring of the lower-cased query: the plan names the tags so selected,
\* and when none is selected (as for the empty query) the plan is the one
\* substituted for an empty selection.
C19_Classification ==
    pc = "plan_task" =>
        LET query    == state.user_query
            selected == { state.task_plan[i].agent : i \in 1..Len(state.task_plan) }
        IN  /\ \A tag \in {"research", "analysis", "writing"} :
                  MatchedTags(query) # {} => (tag \in selected <=> tag \in MatchedTags(query))
            /\ MatchedTags(query) = {} =>
                  state.task_plan = <<[agent |-> "research", task |-> "gather_information"],
                                      [agent |-> "writing", task |-> "create_content"]>>
            /\ query = <<>> => MatchedTags(query) = {}

\* a query matched through its capital letter and through a keyword inside a
\* longer word: "Explain" selects research, "summarize" selects analysis (by
\* "sum") and writing
C19_Witness ==
    /\ pc = "plan_task"
    /\ state.user_query = <<"E","x","p","l","a","i","n"," ","s","u","m","m","a","r","i","z","e">>
    /\ Len(state.task_plan) = 3

\* the empty query has been planned
C19_WitnessEmpty ==
    /\ pc = "plan_task"
    /\ state.user_query = <<>>
    /\ Len(state.task_plan) = 2

\* C20: the analysis executor, run on a query that holds "average", "mean" or
\* "sum" and a list of numbers, writes the aggregate of the numbers (3.00 for
\* 'Calculate the average of 1,2,3,4,5 and create a report', 60 for 'sum of
\* 10,20,30') and not the generic completion message.
C20_AnalysisAggregates ==
    pc = "process_data" =>
        LET analysis == state.agent_results["analysis"] IN
        /\ state.user_query \in {Q_AverageReport, E_SumOfThree} =>
              analysis # <<"(bar chart) Analysis completed: Data patterns and insights identified.">>
        /\ state.user_query = Q_AverageReport => Occurs(<<"3", ".", "0", "0">>, analysis)
        /\ state.user_query = E_SumOfThree => Occurs(<<"6", "0">>, analysis)

\* text ends with suffix
EndsWith(text, suffix) ==
    /\ Len(suffix) <= Len(text)
    /\ SubSeq(text, Len(text) - Len(suffix) + 1, Len(text)) = suffix

C22_FinalResultByAggregator ==
    /\ [](pc \in { "start_coordination", "route_to_next_agent", "execute_research",
                   "execute_analysis", "execute_writing", "should_continue",
                   "finalize_results", "raised" }
             => state.final_result = <<>>)
    /\ [][ (pc \notin {"idle", "returned", "raised"}
                /\ state'.final_result # state.final_result)
             => (pc = "finalize_results" /\ pc' = "END") ]_vars

\* an executor has run and finalize_results is about to: final_result is
\* still empty
C22_Witness ==
    /\ pc = "finalize_results"
    /\ "research" \in DOMAIN state.agent_results
    /\ state.final_result = <<>>

\* finalize_results has written final_result
C22_WitnessWritten ==
    /\ pc = "END"
    /\ state.final_result # <<>>

\* C23: when a run ends, the metadata process_query returns lists the agents
\* invoked: agents_used holds every agent whose executor ran, and total_steps
\* is the length of the plan.
C23_MetadataListsAgents ==
    pc = "returned" =>
        /\ \A i \in 1..Len(dispatched) :
              \E j \in 1..Len(state.metadata.agents_used) :
                  state.metadata.agents_used[j] = dispatched[i]
        /\ state.metadata.total_steps = Len(state.task_plan)


\* what process_query(query) returns on a system that has processed nothing
\* before, for a plan of one step: every choice of the backend and of the chart
FreshRuns(query) ==
    LET routed == route_to_next_agent(plan_task(initial_state(query)))
        executed ==
            IF routed.answer = "research"
            THEN { gather_information(client, c.result, routed.state) : c \in LLMCalls(client) }
            ELSE IF routed.answer = "analysis"
            THEN { process_data(selected_chart, routed.state) : selected_chart \in chart_types }
            ELSE IF routed.answer = "writing"
            THEN { create_content(client, c.result, routed.state) : c \in LLMCalls(client) }
            ELSE { routed.state }
    IN  { [s EXCEPT !.metadata = [@ EXCEPT !.duration_seconds = s.metadata.end_time]] :
             s \in { aggregate_results(e) : e \in executed } }

\* C24: every call of process_query starts the run from a fresh state (empty
\* plan, empty result mapping, cursor 0, empty final_result), and what a call
\* returns is one of the results the same query gives on a system with no
\* earlier queries: it depends on the query and the backend only.
C24_FreshStatePerQuery ==
    /\ [](pc = "returned" => state \in FreshRuns(state.user_query))
    /\ [][ (pc \in {"idle", "returned", "raised"} /\ pc' = "start_coordination")
              => /\ state'.task_plan = <<>>
                 /\ state'.agent_results = EmptyDict
                 /\ state'.current_step = 0
                 /\ state'.final_result = <<>> ]_vars

\* a second query of another kind has returned after an arithmetic query
C24_Witness ==
    /\ pc = "returned"
    /\ Len(conversation_history) = 2
    /\ conversation_history[1].query = Q_Product
    /\ "analysis" \in DOMAIN conversation_history[1].result.agent_results
    /\ conversation_history[2].query = Q_Explain
    /\ DOMAIN state.agent_results = {"research"}
    /\ state \in FreshRuns(Q_Explain)


\* the section finalize_results writes for one tag
SectionOf(tag, text) ==
    IF tag = "research" THEN <<ResearchLabel>> \o text
    ELSE IF tag = "analysis" THEN <<AnalysisLabel>> \o text
    ELSE <<WritingLabel>> \o text

\* the run in progress is for a query whose plan has exactly one step
OneStepRun == pc # "idle" /\ Len(build_plan(state.user_query)) = 1

\* C25: for a query whose plan has exactly one step the workflow dispatches
\* that step's executor exactly once, the continuation check then answers
\* 'finalize', the planner is not entered again after the dispatch, and the
\* run returns with final_result holding exactly that one tag's section.
C25_OneStepPlanCompletes ==
    OneStepRun =>
        LET tag == build_plan(state.user_query)[1].agent IN
        /\ Len(dispatched) <= 1
        /\ pc = "start_coordination" => dispatched = <<>>
        /\ pc = "should_continue" =>
              /\ dispatched = <<tag>>
              /\ should_continue(state) = "finalize"
        /\ RunOver =>
              /\ pc = "returned"
              /\ dispatched = <<tag>>
              /\ supersteps = 3
              /\ DOMAIN state.agent_results = {tag}
              /\ state.final_result = SectionOf(tag, state.agent_results[tag])

\* a one-step arithmetic query has returned with its analysis section
C25_Witness ==
    /\ pc = "returned"
    /\ state.user_query = Q_Product
    /\ dispatched = <<"analysis">>
    /\ state.final_result = SectionOf("analysis", state.agent_results["analysis"])

\* the continuation check after the only executor of a one-step plan
C25_WitnessCheck ==
    /\ pc = "should_continue"
    /\ OneStepRun
    /\ Len(dispatched) = 1


\* C26: in every reachable state of the workflow current_step is 0 or 1:
\* plan_task sets it to 0 on every entry to start_coordination and
\* route_to_next_agent raises it by one at most once before the next re-entry
\* or finalize; so the step the router reads is always the first step of the
\* plan, and every executor dispatched is that step's.
C26_CursorZeroOrOne ==
    /\ state.current_step \in {0, 1}
    /\ pc = "route_to_next_agent" =>
          /\ state.current_step = 0
          /\ state.task_plan # <<>>
          /\ route_to_next_agent(state).answer = state.task_plan[1].agent
    /\ \A i \in 1..Len(dispatched) : dispatched[i] = state.task_plan[1].agent

\* a plan of several steps whose first executor has been dispatched again
\* after a re-entry of the planner
C26_Witness ==
    /\ pc = "should_continue"
    /\ Len(state.task_plan) >= 2
    /\ Len(dispatched) >= 2
    /\ state.current_step = 1


\* the tag of the executor whose direct call has just returned
OwnTag ==
    IF pc = "gather_information" THEN "research"
    ELSE IF pc = "process_data" THEN "analysis"
    ELSE "writing"

\* C27: each executor (gather_information, process_data, create_content)
\* changes only its own tag's entry in agent_results: it leaves user_query,
\* task_plan, current_step, final_result, metadata and the other tags' entries
\* unchanged.
C27_ExecutorFrame ==
    pc \in {"gather_information", "process_data", "create_content"} =>
        LET before == call.arg
            after  == state
        IN  /\ after = call.value
            /\ after.user_query = before.user_query
            /\ after.task_plan = before.task_plan
            /\ after.current_step = before.current_step
            /\ after.final_result = before.final_result
            /\ after.metadata = before.metadata
            /\ DOMAIN after.agent_results = DOMAIN before.agent_results \cup {OwnTag}
            /\ \A tag \in DOMAIN before.agent_results \ {OwnTag} :
                  after.agent_results[tag] = before.agent_results[tag]

\* the analysis executor has run on a planned state that held a research and
\* a writing result
C27_Witness ==
    /\ pc = "process_data"
    /\ call.arg.task_plan # <<>>
    /\ call.arg.current_step = 1
    /\ DOMAIN call.arg.agent_results = {"research", "writing"}
    /\ DOMAIN state.agent_results = {"research", "analysis", "writing"}

\* the research executor has run on a state that held two other results
C27_WitnessResearch ==
    /\ pc = "gather_information"
    /\ DOMAIN call.arg.agent_results = {"analysis", "writing"}
    /\ DOMAIN state.agent_results = {"research", "analysis", "writing"}

\* the writing executor has run on a state that held two other results
C27_WitnessWriting ==
    /\ pc = "create_content"
    /\ DOMAIN call.arg.agent_results = {"research", "analysis"}
    /\ DOMAIN state.agent_results = {"research", "analysis", "writing"}


\* the caller holds control: no process_query call is in progress
CallerInControl == pc \in {"idle", "returned", "raised"}

\* C28: over any sequence of process_query and clear_history calls on one
\* MultiAgentSystem, conversation_history changes only as follows: a
\* process_query that returns appends exactly one entry, for its query and its
\* result, after the entries already there; a process_query that raises adds
\* no entry; clear_history leaves the list empty; nothing else touches it.
\* So the list holds one entry per returned call since the last clear, in
\* call order.
C28_HistoryLog ==
    [][ IF pc = "END"
        THEN /\ pc' = "returned"
             /\ Len(conversation_history') = Len(conversation_history) + 1
             /\ SubSeq(conversation_history', 1, Len(conversation_history)) = conversation_history
             /\ conversation_history'[Len(conversation_history')].query = state.user_query
             /\ conversation_history'[Len(conversation_history')].result = state'
        ELSE IF CallerInControl /\ pc' = pc
        THEN conversation_history' = <<>>
        ELSE conversation_history' = conversation_history ]_vars

\* a call has raised after an earlier call returned: the history holds the
\* one entry of the call that returned
C28_Witness ==
    /\ pc = "raised"
    /\ Len(conversation_history) = 1
    /\ conversation_history[1].query # state.user_query

\* clear_history has been called after a call returned
C28_WitnessCleared ==
    /\ pc = "returned"
    /\ conversation_history = <<>>

\* two calls have returned: their entries stand in call order
C28_WitnessTwo ==
    /\ pc = "returned"
    /\ Len(conversation_history) = 2
    /\ conversation_history[1].query = Q_Write
    /\ conversation_history[2].query = Q_Product
    /\ conversation_history[2].result = state


\* the input holds a digit and one of the math keywords, whatever its case
HasDigitAndMathKeyword(user_input) ==
    /\ \E i \in 1..Len(user_input) : IsDigit(user_input[i])
    /\ \E k \in 1..Len(math_keywords) : Occurs(math_keywords[k], lower(user_input))

\* the arithmetic expression in the input: the first run of expression
\* characters that holds a digit, without the blanks around it
ArithmeticExpression(user_input) ==
    LET runs   == math_patterns(user_input, 1)
        withdigit == { k \in 1..Len(runs) : \E i \in 1..Len(runs[k]) : IsDigit(runs[k][i]) }
    IN  strip(runs[CHOOSE k \in withdigit : \A j \in withdigit : k <= j])

\* the routing half of C29: the math path is taken exactly when the input has
\* a digit and a math keyword
C29_MathPathRouting ==
    pc = "SimpleAgent.process_query" =>
        (call.value.needs_math <=> HasDigitAndMathKeyword(call.arg))

\* C29: SimpleAgent.process_query takes the math path exactly when the input
\* has a digit and a math keyword, and on that path returns 'The answer is: '
\* followed by the calculator's value of the arithmetic expression in the
\* input: for 'What is 10 + 5?' the result contains 15 and not the
\* calculation-error sentinel.
C29_SimpleAgentMath ==
    pc = "SimpleAgent.process_query" =>
        /\ call.value.needs_math <=> HasDigitAndMathKeyword(call.arg)
        /\ call.value.needs_math =>
              call.value.result
                = <<"The answer is: ">> \o advanced_calculator(ArithmeticExpression(call.arg))
        /\ call.arg = S_WhatIsTenPlusFive =>
              /\ Occurs(<<"1", "5">>, call.value.result)
              /\ Count("(cross mark) Error in calculation", call.value.result) = 0


\* the failure values of call_e2e_llm: no client, the retry ceiling reached,
\* an exception on the last attempt
FailureValues ==
    { NotConfigured, MaxRetriesExceeded, ErrorAfterAttempts(DefaultMaxRetries) }

\* s starts with the warning sign or with "Error"
StartsWithWarningOrError(s) ==
    \/ (s # <<>> /\ s[1] = "(warning sign)")
    \/ IsPrefix(<<"E","r","r","o","r">>, s)

\* text holds the warning sign or the word "Error"
HoldsErrorMessage(text) ==
    Count("(warning sign)", text) > 0 \/ Occurs(<<"E","r","r","o","r">>, text)

\* the value is a completion some attempt of the call got from the backend
IsCompletionOf(value, outcomes) ==
    /\ value \notin CallLLMErrors \cup FailureValues
    /\ \E k \in 1..Len(outcomes) : outcomes[k] = TextOutcome(value)

\* C30: every failure value call_e2e_llm can return (client missing, call_llm
\* error returns, retry ceiling reached, exception on the last attempt)
\* starts with the warning sign or with 'Error'; so a call of call_e2e_llm
\* returns either a completion of the backend or a value with such a start,
\* and the research and writing executors label a result as E2E output only
\* when the backend returned a completion, otherwise write the static
\* fallback, and never write a result that holds an error message.
C30_FailuresArePrefixed ==
    /\ \A value \in CallLLMErrors \cup FailureValues : StartsWithWarningOrError(value)
    /\ pc = "call_e2e_llm" =>
          /\ ~client => call.value = NotConfigured
          /\ StartsWithWarningOrError(call.value) <=> ~IsCompletionOf(call.value, call.arg)
          /\ StartsWithWarningOrError(call.value) =>
                call.value \in FailureValues
    /\ pc = "gather_information" =>
          LET research == state.agent_results["research"] IN
          /\ research[1] = "(magnifier) **E2E Research Results:** " =>
                (client /\ research = <<research[1]>> \o llm_call.result
                        /\ ~StartsWithWarningOrError(llm_call.result))
          /\ research[1] # "(magnifier) **E2E Research Results:** " =>
                research = fallback_research(state.user_query)
          /\ ~HoldsErrorMessage(research)
    /\ pc = "create_content" =>
          LET writing == state.agent_results["writing"] IN
          /\ writing[1] = "(memo) **E2E Generated Content:** " =>
                (client /\ IsPrefix(<<writing[1]>> \o llm_call.result, writing)
                        /\ ~StartsWithWarningOrError(llm_call.result))
          /\ writing[1] # "(memo) **E2E Generated Content:** " =>
                IsPrefix(FallbackContent(state.user_query), writing)
          /\ ~HoldsErrorMessage(writing)

\* the research executor has run with a client whose attempts all ended in
\* error returns of call_llm, and has written the static fallback
C30_Witness ==
    /\ pc = "gather_information"
    /\ client
    /\ llm_call.ncalls = 3
    /\ llm_call.result = MaxRetriesExceeded
    /\ state.agent_results["research"] = fallback_research(state.user_query)

\* call_e2e_llm has returned after an invalid body, a network error and an
\* exception on the last attempt
C30_WitnessCall ==
    /\ pc = "call_e2e_llm"
    /\ call.arg = <<TextOutcome(LLMJSONError), TextOutcome(LLMNetworkError), NoneOutcome>>
    /\ call.value = ErrorAfterAttempts(3)

\* call_e2e_llm has returned a completion on the third attempt
C30_WitnessCompletion ==
    /\ pc = "call_e2e_llm"
    /\ call.arg = <<TextOutcome(LLMFormatError), TextOutcome(LLMUnexpectedError), TextOutcome(LLMCompletion)>>
    /\ call.value = LLMCompletion
    /\ llm_call.ncalls = 3

\* the writing executor has labelled a completion as E2E output
C30_WitnessLabelled ==
    /\ pc = "create_content"
    /\ client
    /\ llm_call.result = LLMCompletion
    /\ state.agent_results["writing"][1] = "(memo) **E2E Generated Content:** "

====
